---- MODULE Spec2Model ----
(***************************************************************************)
(* Flashcard synchronisation between the Vocabulary API and an Anki        *)
(* collection (FlashcardSynchronizer, AnkiCardManager,                     *)
(* VocabularyAPIClient) and the newline-delimited JSON file importer       *)
(* (FileDeckImporter).                                                     *)
(*                                                                         *)
(* Spec       : repeated runs of synchronize_updated_cards, one step of   *)
(*              the per-card loop body per action.                         *)
(* SpecLive   : the same runs repeated for ever, under weak fairness.      *)
(* SpecParse  : parse_file over bounded files.                             *)
(* SpecImport : import_cards over the cards of a parsed file.              *)
(* SpecServer : the trigger server's request handler threads.              *)
(* SpecHeadless : one call of synchronize_and_sync of the headless script. *)
(* The legacy add-on's process_cards is given as a function.               *)
(***************************************************************************)
EXTENDS Integers, Sequences, FiniteSets, TLC

\* ------------------------------------------------------------------ bounds
MaxCards == 2
MaxRuns == 2
MaxFaults == 2
MaxLines == 3
MaxRequests == 3

\* ------------------------------------------------------------- Python values
\* Python's None, as a value of the string-typed optional fields.
None == "None"
\* db.scalar's answer when no row matches (None; `not note_id` holds for it).
NoRow == 0
\* bool(x) of an Optional[str].
\* (variant: the test left out)
Truthy_mutAlways(s) == TRUE
Truthy(s) == s # None /\ s # ""

\* ------------------------------------------------------------ the data model
\* models.FlashCard
FlashCard(deck, front, back, updated, id, ankiId, description) ==
    [deck |-> deck, front |-> front, back |-> back, updated |-> updated,
     id |-> id, ankiId |-> ankiId, description |-> description]

\* dataclasses.asdict(flashcard): the JSON payload of a PUT, field by field.
asdict(c) ==
    [deck |-> c.deck, front |-> c.front, back |-> c.back, updated |-> c.updated,
     id |-> c.id, ankiId |-> c.ankiId, description |-> c.description]

\* FlashCard(**raw_card)
FromRaw(raw) ==
    FlashCard(raw.deck, raw.front, raw.back, raw.updated, raw.id, raw.ankiId,
              raw.description)

\* CardResult.is_empty
\* (variant: the test inverted)
is_empty_mutNonEmpty(changed) == Len(changed) > 0
is_empty(changed) == Len(changed) = 0

\* ------------------------------------------------------------ initial worlds
\* The records the server may hold as updated (their id is their position).
\* ankiId None: never created locally; "g1": the guid of a note of the
\* collection; "g9": a guid no note of the collection has; "": a blank ref.
\* Deck A exists in the collection, deck B does not.
CardPool ==
    { FlashCard("A", "hund", "dog", TRUE, 0, None, "Tier"),
      FlashCard("B", "katze", "cat", TRUE, 0, None, ""),
      FlashCard("B", "", "", TRUE, 0, None, ""),
      FlashCard("B", "hund", "dog", TRUE, 0, "g1", "Tier"),
      FlashCard("A", "maus", "mouse", TRUE, 0, "g9", ""),
      FlashCard("A", "hund", "dog", TRUE, 0, "", "") }

\* The collection before the first run: the Default deck and deck A, one note.
DefaultDeckId == 1
InitDecks == { [name |-> "Default", id |-> 1], [name |-> "A", id |-> 2] }
InitNotes ==
    { [id |-> 1, guid |-> "g1", front |-> "alt", back |-> "old",
       description |-> "", did |-> 1] }

\* ------------------------------------------------------ FileDeckImporter
\* A JSON scalar as json.loads returns it: t is "str", "int", "bool" or "null",
\* v its text.
JStr(v) == [t |-> "str", v |-> v]
JNull == [t |-> "null", v |-> "None"]
JBool(b) == [t |-> "bool", v |-> IF b THEN "True" ELSE "False"]
\* str(value)
\* (variant: str(value or None))
Str_mutEmptyAsNone(value) == IF value.v = "" THEN "None" ELSE value.v
Str(value) == value.v
\* bool(value)
Bool(value) ==
    IF value.t = "bool" THEN value.v = "True"
    ELSE IF value.t = "int" THEN value.v # "0"
    ELSE IF value.t = "str" THEN value.v # ""
    ELSE FALSE

\* A line of the file, by what line.strip() and json.loads make of it:
\*   blank   - only whitespace
\*   garbage - json.loads raises JSONDecodeError
\*   object  - a JSON object: has (the keys present) and val (their values)
\*   string, array - a JSON string or array: has is the set of required keys
\*             that `key in payload` finds in it
\*   scalar  - a JSON number, true, false or null
Line(kind, has, val) == [kind |-> kind, has |-> has, val |-> val]
NoVal == [k \in {} |-> JNull]
Obj(val) == Line("object", DOMAIN val, val)

LinePool ==
    { Line("blank", {}, NoVal),
      Line("garbage", {}, NoVal),
      Obj([k \in {"front", "back"} |->
              IF k = "front" THEN JStr("hund") ELSE JStr("dog")]),
      Obj([k \in {"front", "back"} |-> JStr("")]),
      Obj([k \in {"front", "back", "description", "ankiId"} |->
              CASE k = "front" -> JStr("alt")
                [] k = "back" -> JStr("old")
                [] k = "description" -> JStr("Tier")
                [] OTHER -> JStr("g1")]),
      Obj([k \in {"front"} |-> JStr("hund")]),
      Obj([k \in {"back"} |-> JStr("dog")]),
      Obj(NoVal),
      Line("scalar", {}, NoVal),
      Line("string", {}, NoVal),
      Line("array", {"front", "back"}, NoVal) }

\* What a call leaves: nothing yet, a value, or an exception.
Outcome(status, type, message, line, field, cards) ==
    [status |-> status, type |-> type, message |-> message, line |-> line,
     field |-> field, cards |-> cards]
NoFile == [state |-> "ok", lines |-> <<>>]
NotRun == Outcome("none", "", "", 0, "", <<>>)
Returned(cards) == Outcome("returned", "", "", 0, "", cards)
Raised(type, message, line, field) ==
    Outcome("raised", type, message, line, field, <<>>)

\* payload.get(key, default)
Get(payload, key, default) ==
    IF key \in payload.has THEN payload.val[key] ELSE default

\* The first required key `key in payload` does not find, or "" when it finds all.
\* (variant: the keys tested in the order back, front)
MissingKey_mutBackFirst(payload) ==
    IF "back" \notin payload.has THEN "back"
    ELSE IF "front" \notin payload.has THEN "front"
    ELSE ""
MissingKey(payload) ==
    IF "front" \notin payload.has THEN "front"
    ELSE IF "back" \notin payload.has THEN "back"
    ELSE ""

\* FileDeckImporter._parse_line: "none" for a blank line, a card, or an exception.
_parse_line(line, line_number) ==
    IF line.kind = "blank" THEN Returned(<<>>)
    ELSE IF line.kind = "garbage"
    THEN Raised("FileImportError", "Invalid JSON", line_number, "")
    ELSE IF line.kind = "scalar"
    THEN Raised("TypeError", "not iterable", 0, "")
    ELSE IF MissingKey(line) # ""
    THEN Raised("FileImportError", "Missing required field", line_number,
                MissingKey(line))
    ELSE IF line.kind # "object"
    THEN Raised("AttributeError", "no attribute 'get'", 0, "")
    ELSE Returned(<<[deck |-> Get(line, "deck", JStr("")),
                     front |-> Str(Get(line, "front", JStr(""))),
                     back |-> Str(Get(line, "back", JStr(""))),
                     description |-> Str(Get(line, "description", JStr(""))),
                     updated |-> Bool(Get(line, "updated", JBool(FALSE))),
                     id |-> Get(line, "id", JNull),
                     ankiId |-> Get(line, "ankiId", JNull)]>>)

\* enumerate(handle, start=1): the number given to the k-th physical line.
\* (variant: start=0)
LineNumber_mutFromZero(k) == k - 1
LineNumber(k) == k

\* The loop of parse_file from the k-th line on, `cards` parsed so far.
\* (variant: each card inserted at the head of the list)
RECURSIVE ParseFrom_mutPrepend(_, _, _)
ParseFrom_mutPrepend(lines, k, cards) ==
    IF k > Len(lines) THEN Returned(cards)
    ELSE LET card == _parse_line(lines[k], LineNumber(k)) IN
         IF card.status = "raised" THEN card
         ELSE ParseFrom_mutPrepend(lines, k + 1, card.cards \o cards)
RECURSIVE ParseFrom(_, _, _)
ParseFrom(lines, k, cards) ==
    IF k > Len(lines) THEN Returned(cards)
    ELSE LET card == _parse_line(lines[k], LineNumber(k)) IN
         IF card.status = "raised" THEN card
         ELSE ParseFrom(lines, k + 1, cards \o card.cards)

\* FileDeckImporter.parse_file. f.state: "missing" (path.exists() is false),
\* "unreadable" (path.open or the decoding raises) or "ok".
parse_file(f) ==
    IF f.state = "missing"
    THEN Raised("FileImportError", "Import file not found", 0, "")
    ELSE IF f.state = "unreadable" THEN Raised("OSError", "open", 0, "")
    ELSE ParseFrom(f.lines, 1, <<>>)

\* import_cards not called: no cards, no orientation, nothing resolved.
NoImport ==
    [cards |-> <<>>, import_forward |-> FALSE, import_reverse |-> FALSE,
     forward_deck_id |-> 0, reverse_deck_id |-> 0, changed_cards |-> <<>>]
\* The trigger server before any request: no handler thread.
NoHandlers == <<>>
\* synchronize_and_sync not called.
Frame(at, exc, ret, log) == [at |-> at, exc |-> exc, ret |-> ret, log |-> log]
NoScript == Frame("off", "", "none", <<>>)

\* FileDeckImporter.get_summary
get_summary(cards) == [forward_count |-> Len(cards), reverse_count |-> Len(cards)]

VARIABLES
    remote,         \* the server's records, by id (a sequence of raw dicts)
    notes,          \* the collection's notes
    decks,          \* the collection's decks: {[name, id]}
    pc,             \* position in synchronize_updated_cards
    run,            \* runs started
    updated_cards,  \* the fetched FlashCard objects (mutated in place)
    fetched,        \* ghost: updated_cards as fetched
    idx,            \* the loop's position in updated_cards
    deck_id,        \* local of the loop body
    existing_note_id,
    changed_cards,  \* positions in updated_cards (the list holds references)
    result,         \* "none" | "returned" | "VocabularyAPIError"
    calls,          \* ghost: the adapter and remote calls of this run, in order
    prev,           \* ghost: summary of the previous finished run
    at_fetch,       \* ghost: the server's records and the collection at the fetch
    faults,         \* answers of the environment other than the usual one, so far
    file,           \* parse_file: the file's lines
    parsed,         \* parse_file: its outcome
    imp,            \* import_cards: its arguments and locals
    handlers,       \* the trigger server's request handler threads
    script          \* synchronize_and_sync of the headless script: its frame

vars == <<remote, notes, decks, pc, run, updated_cards, fetched, idx, deck_id,
          existing_note_id, changed_cards, result, calls, prev, at_fetch,
          faults, file, parsed, imp, handlers, script>>

\* ------------------------------------------------------- the remote service
\* GET {base}?updated=true: the server's records flagged updated, in id order.
Pending(rem) == SelectSeq(rem, LAMBDA r : r.updated)

\* PUT {base} with one record: the server stores the payload under its id.
Upsert(rem, payload) ==
    IF payload.id \in 1..Len(rem)
    THEN [rem EXCEPT ![payload.id] = payload]
    ELSE Append(rem, payload)

\* models.FlashCard: the fields of the dataclass, and those without a default.
Fields == {"deck", "front", "back", "updated", "id", "ankiId", "description"}
Required == {"deck", "front", "back", "updated"}
\* FlashCard(**raw_card) of a dict with these keys returns an object; with a key
\* that is no field, or without a required one, it raises TypeError.
Decodes(keys) == Required \subseteq keys /\ keys \subseteq Fields

\* The keys of the entries of the response body. env "unknown_field" and
\* "missing_field": the entry at position `bad` has a key FlashCard does not
\* know, or lacks a required one; every other entry has the fields.
KeysOf(k, env, bad) ==
    IF k # bad THEN Fields
    ELSE IF env = "unknown_field" THEN Fields \cup {"extra"}
    ELSE IF env = "missing_field" THEN Fields \ {"front"}
    ELSE Fields
FetchEnvs == {"ok", "fail", "unknown_field", "missing_field"}
\* The positions the malformed entry of a body may have.
BadAt(rem, env) ==
    IF env \in {"unknown_field", "missing_field"} THEN 1..Len(Pending(rem)) ELSE {0}

\* VocabularyAPIClient.fetch_updated_flashcards. env: "ok" (200), "fail" (a
\* transport error or a non-2xx status: RequestException -> VocabularyAPIError)
\* or a 200 whose body has a malformed entry (the TypeError of the decoding is
\* not a RequestException and leaves the method as it is). The whole body is
\* decoded before anything is returned.
\* (variant: a failed request answered with an empty list instead of raising)
fetch_mutSwallow(rem, env, bad) ==
    IF env = "fail"
    THEN [raised |-> FALSE, kind |-> "", cards |-> <<>>]
    ELSE IF \E k \in 1..Len(Pending(rem)) : ~Decodes(KeysOf(k, env, bad))
    THEN [raised |-> TRUE, kind |-> "TypeError", cards |-> <<>>]
    ELSE [raised |-> FALSE, kind |-> "",
          cards |-> [k \in 1..Len(Pending(rem)) |-> FromRaw(Pending(rem)[k])]]
fetch_updated_flashcards(rem, env, bad) ==
    IF env = "fail"
    THEN [raised |-> TRUE, kind |-> "VocabularyAPIError", cards |-> <<>>]
    ELSE IF \E k \in 1..Len(Pending(rem)) : ~Decodes(KeysOf(k, env, bad))
    THEN [raised |-> TRUE, kind |-> "TypeError", cards |-> <<>>]
    ELSE [raised |-> FALSE, kind |-> "",
          cards |-> [k \in 1..Len(Pending(rem)) |-> FromRaw(Pending(rem)[k])]]

\* VocabularyAPIClient.create_flashcard: PUT, raise_for_status, return True.
\* (variant: without raise_for_status, as in the legacy add-on)
create_flashcard_mutNoRaise(rem, flashcard, env) ==
    IF env = "ok"
    THEN [raised |-> FALSE, remote |-> Upsert(rem, asdict(flashcard))]
    ELSE [raised |-> FALSE, remote |-> rem]
create_flashcard(rem, flashcard, env) ==
    IF env = "ok"
    THEN [raised |-> FALSE, remote |-> Upsert(rem, asdict(flashcard))]
    ELSE [raised |-> TRUE, remote |-> rem]

\* VocabularyAPIClient.update_flashcard: the same request.
\* (variant: without raise_for_status)
update_flashcard_mutNoRaise(rem, flashcard, env) ==
    IF env = "ok"
    THEN [raised |-> FALSE, remote |-> Upsert(rem, asdict(flashcard))]
    ELSE [raised |-> FALSE, remote |-> rem]
update_flashcard(rem, flashcard, env) ==
    IF env = "ok"
    THEN [raised |-> FALSE, remote |-> Upsert(rem, asdict(flashcard))]
    ELSE [raised |-> TRUE, remote |-> rem]

\* ------------------------------------------------------ the Anki collection
HasDeck(ds, name) == \E d \in ds : d.name = name
DeckNamed(ds, name) == CHOOSE d \in ds : d.name = name
\* (variant: a deck made whether or not one of the name exists)
WithDeck_mutAlwaysNew(ds, name) ==
    ds \cup {[name |-> name, id |-> Cardinality(ds) + 1]}
WithDeck(ds, name) ==
    IF HasDeck(ds, name) THEN ds
    ELSE ds \cup {[name |-> name, id |-> Cardinality(ds) + 1]}

\* AnkiCardManager.get_or_create_deck_id. env "ok": decks.id returns the deck's
\* id, or raises and decks.new makes the deck; env "raise": decks.new raises.
get_or_create_deck_id(ds, deck_name, env) ==
    IF env = "ok"
    THEN [raised |-> FALSE, decks |-> WithDeck(ds, deck_name),
          id |-> DeckNamed(WithDeck(ds, deck_name), deck_name).id]
    ELSE [raised |-> TRUE, decks |-> ds, id |-> 0]

\* AnkiCardManager.find_note_by_guid: SELECT id FROM notes WHERE guid = ?
find_note_by_guid(ns, guid) ==
    IF \E n \in ns : n.guid = guid
    THEN (CHOOSE n \in ns : n.guid = guid).id
    ELSE NoRow

\* AnkiCardManager.set_note_fields
\* (variant: the description field left out)
set_note_fields_mutNoDescription(note, flashcard) ==
    [note EXCEPT !.front = flashcard.front, !.back = flashcard.back]
set_note_fields(note, flashcard) ==
    [note EXCEPT !.front = flashcard.front, !.back = flashcard.back,
                 !.description = flashcard.description]

\* AnkiCardManager.add_card_to_deck: set_deck on the note's cards.
add_card_to_deck(note, did) == [note EXCEPT !.did = did]

\* collection.newNote(model): a fresh note, its guid assigned by the collection.
newNote(ns) ==
    [id |-> Cardinality(ns) + 1, guid |-> "n" \o ToString(Cardinality(ns) + 1),
     front |-> "", back |-> "", description |-> "", did |-> DefaultDeckId]

AllEmpty(flashcard) ==
    flashcard.front = "" /\ flashcard.back = "" /\ flashcard.description = ""

\* What the collection may answer to a creation: the model is missing; newNote,
\* the field assignment or addNote raises; addNote adds no card (a duplicate,
\* or empty fields); the note is added and set_deck raises; the note is added.
\* A note with all fields empty is never added.
CreateEnvs(flashcard) ==
    IF AllEmpty(flashcard) THEN {"no_model", "raise", "rejected"}
    ELSE {"no_model", "raise", "rejected", "added_raise", "added"}

\* AnkiCardManager.create_new_card
\* (variant: a note addNote made no card for stays in the collection)
create_new_card_mutRejectedKept(ns, flashcard, did, env) ==
    LET note == set_note_fields(newNote(ns), flashcard) IN
    IF env = "no_model" THEN [raised |-> FALSE, guid |-> None, notes |-> ns]
    ELSE IF env = "raise" THEN [raised |-> TRUE, guid |-> None, notes |-> ns]
    ELSE IF env = "rejected"
    THEN [raised |-> FALSE, guid |-> None, notes |-> ns \cup {note}]
    ELSE IF env = "added_raise"
    THEN [raised |-> TRUE, guid |-> None, notes |-> ns \cup {note}]
    ELSE [raised |-> FALSE, guid |-> note.guid,
          notes |-> ns \cup {add_card_to_deck(note, did)}]
\* (variant: the note's guid returned without the note being added)
create_new_card_mutNotAdded(ns, flashcard, did, env) ==
    LET note == set_note_fields(newNote(ns), flashcard) IN
    IF env = "no_model" THEN [raised |-> FALSE, guid |-> None, notes |-> ns]
    ELSE IF env = "raise" THEN [raised |-> TRUE, guid |-> None, notes |-> ns]
    ELSE IF env = "rejected" THEN [raised |-> FALSE, guid |-> None, notes |-> ns]
    ELSE IF env = "added_raise" THEN [raised |-> TRUE, guid |-> None, notes |-> ns]
    ELSE [raised |-> FALSE, guid |-> note.guid, notes |-> ns]
\* (variant: the added note takes the place of the notes with the same front)
create_new_card_mutReplace(ns, flashcard, did, env) ==
    LET note == set_note_fields(newNote(ns), flashcard) IN
    IF env = "no_model" THEN [raised |-> FALSE, guid |-> None, notes |-> ns]
    ELSE IF env = "raise" THEN [raised |-> TRUE, guid |-> None, notes |-> ns]
    ELSE IF env = "rejected" THEN [raised |-> FALSE, guid |-> None, notes |-> ns]
    ELSE IF env = "added_raise"
    THEN [raised |-> TRUE, guid |-> None, notes |-> ns \cup {note}]
    ELSE [raised |-> FALSE, guid |-> note.guid,
          notes |-> {n \in ns : n.front # flashcard.front}
                        \cup {add_card_to_deck(note, did)}]
create_new_card(ns, flashcard, did, env) ==
    LET note == set_note_fields(newNote(ns), flashcard) IN
    IF env = "no_model" THEN [raised |-> FALSE, guid |-> None, notes |-> ns]
    ELSE IF env = "raise" THEN [raised |-> TRUE, guid |-> None, notes |-> ns]
    ELSE IF env = "rejected" THEN [raised |-> FALSE, guid |-> None, notes |-> ns]
    ELSE IF env = "added_raise"
    THEN [raised |-> TRUE, guid |-> None, notes |-> ns \cup {note}]
    ELSE [raised |-> FALSE, guid |-> note.guid,
          notes |-> ns \cup {add_card_to_deck(note, did)}]

\* What the collection may answer to an update: the lookup, get_note or
\* update_note raises; update_note succeeds and set_deck raises; all succeed.
UpdateEnvs == {"raise", "updated_raise", "ok"}

\* AnkiCardManager.update_existing_card
update_existing_card(ns, flashcard, did, env) ==
    LET note_id == find_note_by_guid(ns, flashcard.ankiId) IN
    IF ~Truthy(flashcard.ankiId) THEN [raised |-> FALSE, ok |-> FALSE, notes |-> ns]
    ELSE IF env = "raise" THEN [raised |-> TRUE, ok |-> FALSE, notes |-> ns]
    ELSE IF note_id = NoRow THEN [raised |-> FALSE, ok |-> FALSE, notes |-> ns]
    ELSE LET old == CHOOSE n \in ns : n.id = note_id
             note == set_note_fields(old, flashcard)
         IN  IF env = "updated_raise"
             THEN [raised |-> TRUE, ok |-> FALSE,
                   notes |-> (ns \ {old}) \cup {note}]
             ELSE [raised |-> FALSE, ok |-> TRUE,
                   notes |-> (ns \ {old}) \cup {add_card_to_deck(note, did)}]

\* ------------------------------------------ synchronize_updated_cards
\* The environment's answers to a call: any of `all` while the behaviour has
\* had fewer than MaxFaults unusual answers, the usual one after that.
Answers(all, usual) == IF faults < MaxFaults THEN all ELSE {usual}
Counted(env, usual) == faults' = faults + (IF env = usual THEN 0 ELSE 1)
UsualCreate(flashcard) == IF AllEmpty(flashcard) THEN "rejected" ELSE "added"

Call(op, card, res) == [op |-> op, card |-> card, res |-> res]

\* What a finished run leaves for the next one to compare with: its outcome, the
\* number of cards it fetched, the ids of the cards in its changed_cards and the
\* ids of the cards whose PUT failed.
NoRun == [result |-> "none", fetched |-> 0, changed |-> <<>>, unacked |-> {}]
Summary ==
    [result |-> result, fetched |-> Len(updated_cards),
     changed |-> [i \in 1..Len(changed_cards) |-> updated_cards[changed_cards[i]].id],
     unacked |-> {updated_cards[calls[i].card].id :
                     i \in {j \in 1..Len(calls) : calls[j] = Call("put", calls[j].card, "fail")}}]

\* The per-card handler, `except Exception`: catches every exception kind.
\* (variants: a handler for API errors only, and one for all but API errors)
CaughtPerCard_mutApiOnly(kind) == kind = "VocabularyAPIError"
CaughtPerCard_mutLocalOnly(kind) == kind = "Exception"
CaughtPerCard(kind) == kind \in {"Exception", "VocabularyAPIError"}

\* The outer handlers: a VocabularyAPIError is re-raised, anything else is
\* wrapped in one.
\* (variant: the exception let through as it is)
OuterHandler_mutReraise(kind) == kind
OuterHandler(kind) == "VocabularyAPIError"

\* flashcard.ankiId = guid; flashcard.updated = False
MarkCreated(flashcard, guid) == [flashcard EXCEPT !.ankiId = guid, !.updated = FALSE]
\* flashcard.updated = False
\* (variant: the flag left set)
MarkUpdated_mutKeepFlag(flashcard) == flashcard
MarkUpdated(flashcard) == [flashcard EXCEPT !.updated = FALSE]

\* line 75: if flashcard.ankiId is None or existing_note_id is None
\* (variant: the second test inverted)
CreatePath_mutInverted(flashcard, existing) ==
    flashcard.ankiId = None \/ existing # NoRow
\* (variant: the lookup's answer not consulted)
CreatePath_mutRefOnly(flashcard, existing) == flashcard.ankiId = None
CreatePath(flashcard, existing) == flashcard.ankiId = None \/ existing = NoRow

\* `continue`, or the end of the loop body: on to the next card.
\* (variant: the same card taken again)
NextCard_mutRepeat ==
    /\ idx' = idx
    /\ pc' = "deck"
    /\ deck_id' = 0
    /\ existing_note_id' = NoRow
    /\ result' = result
NextCard ==
    /\ idx' = idx + 1
    /\ pc' = IF idx + 1 <= Len(updated_cards) THEN "deck" ELSE "return"
    /\ deck_id' = 0
    /\ existing_note_id' = NoRow
    /\ result' = result

\* An exception of `kind` raised in the loop body.
Raise(kind) ==
    IF CaughtPerCard(kind)
    THEN NextCard
    ELSE /\ pc' = "idle"
         /\ result' = OuterHandler(kind)
         /\ UNCHANGED <<idx, deck_id, existing_note_id>>

Init ==
    /\ \E n \in 0..MaxCards : \E f \in [1..n -> CardPool] :
          remote = [k \in 1..n |-> asdict([f[k] EXCEPT !.id = k])]
    /\ notes = InitNotes
    /\ decks = InitDecks
    /\ pc = "idle"
    /\ run = 0
    /\ updated_cards = <<>>
    /\ fetched = <<>>
    /\ idx = 1
    /\ deck_id = 0
    /\ existing_note_id = NoRow
    /\ changed_cards = <<>>
    /\ result = "none"
    /\ calls = <<>>
    /\ prev = NoRun
    /\ at_fetch = [remote |-> remote, notes |-> notes, decks |-> decks]
    /\ faults = 0
    /\ file = NoFile
    /\ parsed = NotRun
    /\ imp = NoImport
    /\ handlers = NoHandlers
    /\ script = NoScript

\* line 61: updated_cards = self.api_client.fetch_updated_flashcards()
Fetch ==
    /\ pc = "idle"
    /\ run < MaxRuns
    /\ \E env \in Answers(FetchEnvs, "ok") : \E bad \in BadAt(remote, env) :
         LET r == fetch_updated_flashcards(remote, env, bad) IN
         /\ Counted(env, "ok")
         /\ run' = run + 1
         /\ prev' = Summary
         /\ at_fetch' = [remote |-> remote, notes |-> notes, decks |-> decks]
         /\ calls' = <<Call("fetch", 0, env)>>
         /\ changed_cards' = <<>>
         /\ updated_cards' = r.cards
         /\ fetched' = r.cards
         /\ idx' = 1
         /\ IF r.raised
            THEN pc' = "idle" /\ result' = OuterHandler(r.kind)
            ELSE /\ pc' = IF Len(r.cards) >= 1 THEN "deck" ELSE "return"
                 /\ result' = "none"
    /\ UNCHANGED <<remote, notes, decks, deck_id, existing_note_id, file, parsed, imp, handlers, script>>

\* line 66: deck_id = self.anki_manager.get_or_create_deck_id(flashcard.deck)
ResolveDeck ==
    /\ pc = "deck"
    /\ \E env \in Answers({"ok", "raise"}, "ok") :
         LET r == get_or_create_deck_id(decks, updated_cards[idx].deck, env) IN
         /\ Counted(env, "ok")
         /\ calls' = Append(calls, Call("resolveCategory", idx, env))
         /\ decks' = r.decks
         /\ IF r.raised
            THEN Raise("Exception")
            ELSE /\ deck_id' = r.id
                 /\ pc' = "find"
                 /\ UNCHANGED <<idx, existing_note_id, result>>
    /\ UNCHANGED <<remote, notes, run, updated_cards, fetched, changed_cards, prev,
                   at_fetch,
                   file, parsed, imp, handlers, script>>

\* lines 69-73: existing_note_id = find_note_by_guid(ankiId) if ankiId else None
FindNote ==
    /\ pc = "find"
    /\ LET flashcard == updated_cards[idx] IN
       IF Truthy(flashcard.ankiId)
       THEN \E env \in Answers({"ok", "raise"}, "ok") :
              IF env = "raise"
              THEN /\ calls' = Append(calls, Call("find", idx, "raise"))
                   /\ Counted(env, "ok")
                   /\ Raise("Exception")
              ELSE LET id == find_note_by_guid(notes, flashcard.ankiId) IN
                   /\ UNCHANGED faults
                   /\ calls' = Append(calls,
                         Call("find", idx, IF id = NoRow THEN "absent" ELSE "found"))
                   /\ existing_note_id' = id
                   /\ pc' = "write"
                   /\ UNCHANGED <<idx, deck_id, result>>
       ELSE /\ existing_note_id' = NoRow
            /\ pc' = "write"
            /\ UNCHANGED <<calls, idx, deck_id, result, faults>>
    /\ UNCHANGED <<remote, notes, decks, run, updated_cards, fetched, changed_cards,
                   prev, at_fetch,
                   file, parsed, imp, handlers, script>>

\* lines 75-80 and 83-86: the local create or update, and the marking of the
\* FlashCard object on success.
WriteCard ==
    /\ pc = "write"
    /\ LET flashcard == updated_cards[idx] IN
       IF CreatePath(flashcard, existing_note_id)
       THEN \E env \in Answers(CreateEnvs(flashcard), UsualCreate(flashcard)) :
              LET r == create_new_card(notes, flashcard, deck_id, env) IN
              /\ Counted(env, UsualCreate(flashcard))
              /\ notes' = r.notes
              /\ calls' = Append(calls, Call("create", idx,
                    IF r.raised THEN env
                    ELSE IF r.guid = None THEN "none" ELSE "ref"))
              /\ IF r.raised
                 THEN Raise("Exception") /\ UNCHANGED updated_cards
                 ELSE IF Truthy(r.guid)
                 THEN /\ updated_cards' =
                            [updated_cards EXCEPT ![idx] = MarkCreated(@, r.guid)]
                      /\ pc' = "put"
                      /\ UNCHANGED <<idx, deck_id, existing_note_id, result>>
                 ELSE NextCard /\ UNCHANGED updated_cards
       ELSE \E env \in Answers(UpdateEnvs, "ok") :
              LET r == update_existing_card(notes, flashcard, deck_id, env) IN
              /\ Counted(env, "ok")
              /\ notes' = r.notes
              /\ calls' = Append(calls, Call("update", idx,
                    IF r.raised THEN env
                    ELSE IF r.ok THEN "true" ELSE "false"))
              /\ IF r.raised
                 THEN Raise("Exception") /\ UNCHANGED updated_cards
                 ELSE IF r.ok
                 THEN /\ updated_cards' =
                            [updated_cards EXCEPT ![idx] = MarkUpdated(@)]
                      /\ pc' = "put"
                      /\ UNCHANGED <<idx, deck_id, existing_note_id, result>>
                 ELSE NextCard /\ UNCHANGED updated_cards
    /\ UNCHANGED <<remote, decks, run, fetched, changed_cards, prev, at_fetch,
                   file, parsed, imp, handlers, script>>

\* The path the current card took: the last local call was a create.
OnCreatePath == calls[Len(calls)].op = "create"

\* lines 81-82 and 87-88: the PUT, then changed_cards.append(flashcard)
RemoteWrite ==
    /\ pc = "put"
    /\ \E env \in Answers({"ok", "fail"}, "ok") :
         LET flashcard == updated_cards[idx]
             r == IF OnCreatePath THEN create_flashcard(remote, flashcard, env)
                  ELSE update_flashcard(remote, flashcard, env)
         IN
         /\ Counted(env, "ok")
         /\ remote' = r.remote
         /\ calls' = Append(calls, Call("put", idx, env))
         /\ IF r.raised
            THEN Raise("VocabularyAPIError") /\ UNCHANGED changed_cards
            ELSE changed_cards' = Append(changed_cards, idx) /\ NextCard
    /\ UNCHANGED <<notes, decks, run, updated_cards, fetched, prev, at_fetch,
                   file, parsed, imp, handlers, script>>

\* lines 95-104: return CardResult(changes, changed_cards)
Return ==
    /\ pc = "return"
    /\ pc' = "idle"
    /\ result' = "returned"
    /\ UNCHANGED <<remote, notes, decks, run, updated_cards, fetched, idx, deck_id,
                   existing_note_id, changed_cards, calls, prev, at_fetch, faults,
                   file, parsed, imp, handlers, script>>

Next == Fetch \/ ResolveDeck \/ FindNote \/ WriteCard \/ RemoteWrite \/ Return

Spec == Init /\ [][Next]_vars


\* ------------------------------------------------- reading a run's calls
Cards == 1..Len(updated_cards)
Finished == pc = "idle" /\ run > 0
FetchOk == run > 0 /\ calls[1] = Call("fetch", 0, "ok")
FetchFailed == run > 0 /\ calls[1] = Call("fetch", 0, "fail")
\* The body of the response had an entry FlashCard(**raw_card) raised for.
FetchMalformed ==
    run > 0 /\ calls[1].op = "fetch"
            /\ calls[1].res \in {"unknown_field", "missing_field"}
FetchRaised == FetchFailed \/ FetchMalformed
Has(k, op, res) == \E i \in 1..Len(calls) : calls[i] = Call(op, k, res)
Called(k, op) == \E i \in 1..Len(calls) : calls[i].card = k /\ calls[i].op = op
InChanged(k) == \E i \in 1..Len(changed_cards) : changed_cards[i] = k
\* A local store adapter call for card k raised.
LocalRaised(k) ==
    \E i \in 1..Len(calls) :
        /\ calls[i].card = k
        /\ calls[i].op \in {"resolveCategory", "find", "create", "update"}
        /\ calls[i].res \in {"raise", "added_raise", "updated_raise"}
\* create_new_card returned a guid, or update_existing_card returned True.
LocallyWritten(k) == Has(k, "create", "ref") \/ Has(k, "update", "true")
Acked(k) == Has(k, "put", "ok")
ProcessedOk(k) == LocallyWritten(k) /\ Acked(k)
\* The loop is past card k.
Done(k) == k < idx \/ (Finished /\ result = "returned")
\* 1..n without k, in order.
Without(n, k) == [j \in 1..(n - 1) |-> IF j < k THEN j ELSE j + 1]
Resolves(ns, ankiId) == \E n \in ns : n.guid = ankiId
NoteOf(ns, ankiId) == CHOOSE n \in ns : n.guid = ankiId

C2_AsStated ==
    \A k \in Cards :
        Done(k) =>
            /\ fetched[k].ankiId = None
               => Called(k, "create") /\ updated_cards[k].ankiId # None
            /\ Resolves(at_fetch.notes, fetched[k].ankiId)
               => Called(k, "update")

\* C2, amended: a card fetched with ankiId None never takes the update path, is
\* passed to create_new_card unless resolving its deck raised, and carries the
\* returned guid when one is returned; a card whose ankiId resolves never takes
\* the create path, is passed to update_existing_card unless an earlier call
\* for it raised, and right after a successful update its note has the card's
\* front, back and description and is in the card's deck.
C2_CreateVsUpdate ==
    /\ \A k \in Cards :
          /\ fetched[k].ankiId = None =>
                /\ ~Called(k, "update")
                /\ Done(k) => Called(k, "create") \/ Has(k, "resolveCategory", "raise")
                /\ Has(k, "create", "ref") =>
                      /\ updated_cards[k].ankiId # None
                      /\ Resolves(notes, updated_cards[k].ankiId)
          /\ Resolves(at_fetch.notes, fetched[k].ankiId) =>
                /\ ~Called(k, "create")
                /\ Done(k) => \/ Called(k, "update")
                              \/ Has(k, "resolveCategory", "raise")
                              \/ Has(k, "find", "raise")
    /\ (pc = "put" /\ calls[Len(calls)] = Call("update", idx, "true")) =>
          LET flashcard == updated_cards[idx]
              note == NoteOf(notes, flashcard.ankiId)
          IN  /\ note.front = flashcard.front
              /\ note.back = flashcard.back
              /\ note.description = flashcard.description
              /\ note.did = DeckNamed(decks, flashcard.deck).id

C2_Witness ==
    /\ pc = "put"
    /\ idx = 2
    /\ calls[Len(calls)] = Call("update", 2, "true")
    /\ fetched[1].ankiId = None
    /\ Has(1, "create", "ref")
    /\ updated_cards[1].ankiId # None

\* C3 as stated: of two consecutive runs that both return, the second has an
\* empty changed_cards.
C3_AsStated ==
    (Finished /\ run >= 2 /\ prev.result = "returned" /\ result = "returned")
    => changed_cards = <<>>

\* C3, amended: the run after a run that returned fetches none of the cards
\* that run had in changed_cards; when that run had every fetched card in
\* changed_cards, the next run fetches nothing and its changed_cards is empty.
C3_IdempotentResync ==
    (run >= 2 /\ prev.result = "returned") =>
        /\ \A k \in Cards : \A i \in 1..Len(prev.changed) :
               fetched[k].id # prev.changed[i]
        /\ Len(prev.changed) = prev.fetched =>
               /\ changed_cards = <<>>
               /\ FetchOk => fetched = <<>>

C3_Witness ==
    /\ Finished
    /\ run = 2
    /\ prev.result = "returned"
    /\ prev.fetched = 2
    /\ prev.changed = <<1, 2>>
    /\ FetchOk
    /\ fetched = <<>>
    /\ result = "returned"

\* C4: a run whose fetch returns no card makes no adapter call and no remote
\* write, leaves the collection and the server as they were, and returns an
\* empty CardResult.
C4_EmptyResult ==
    (FetchOk /\ fetched = <<>>) =>
        /\ calls = <<Call("fetch", 0, "ok")>>
        /\ notes = at_fetch.notes /\ decks = at_fetch.decks
        /\ remote = at_fetch.remote
        /\ Finished => /\ result = "returned"
                       /\ changed_cards = <<>>
                       /\ is_empty(changed_cards)

C4_Witness ==
    /\ Finished
    /\ FetchOk
    /\ fetched = <<>>
    /\ result = "returned"
    /\ run = 2
    /\ prev.fetched = 2

\* C5: a run whose fetch fails raises VocabularyAPIError, returns no CardResult,
\* and makes no adapter call and no remote write.
C5_FetchFailureAborts ==
    FetchFailed =>
        /\ pc = "idle"
        /\ result = "VocabularyAPIError"
        /\ calls = <<Call("fetch", 0, "fail")>>
        /\ changed_cards = <<>>
        /\ notes = at_fetch.notes /\ decks = at_fetch.decks
        /\ remote = at_fetch.remote

C5_Witness ==
    /\ Finished
    /\ FetchFailed
    /\ result = "VocabularyAPIError"
    /\ Len(Pending(remote)) = 2

\* A call for card k failed: an adapter call raised or the PUT failed.
Failed(k) == LocalRaised(k) \/ Has(k, "put", "fail")

\* C6: once the fetch has returned, the run never raises: it returns, every
\* card has been visited, and a card with a failed call (the PUT included) is
\* not in changed_cards.
C6_NoRaiseAfterFetch ==
    FetchOk =>
        /\ result # "VocabularyAPIError"
        /\ Finished =>
              /\ result = "returned"
              /\ \A k \in Cards :
                    /\ Called(k, "resolveCategory")
                    /\ Failed(k) => ~InChanged(k)

C6_Witness ==
    /\ Finished
    /\ Len(updated_cards) = 2
    /\ Has(1, "put", "fail")
    /\ ProcessedOk(2)
    /\ changed_cards = <<2>>

\* C7 as stated: every card whose note was created or updated in the run is in
\* the returned changed_cards.
C7_AsStated ==
    (Finished /\ result = "returned")
    => \A k \in Cards : LocallyWritten(k) => InChanged(k)

\* C8 as stated: a card fetched with an ankiId keeps it.
C8_AsStated ==
    \A k \in Cards :
        fetched[k].ankiId # None => updated_cards[k].ankiId = fetched[k].ankiId

\* C8, amended: a card whose ankiId was found in the collection keeps it; an
\* ankiId is assigned only on the create path (ankiId None, blank, or not
\* found), and then it is the guid create_new_card returned, a note's guid.
C8_AnkiIdAssignedOnCreate ==
    \A k \in Cards :
        /\ Has(k, "find", "found") => updated_cards[k].ankiId = fetched[k].ankiId
        /\ updated_cards[k].ankiId # fetched[k].ankiId =>
              /\ Has(k, "create", "ref")
              /\ ~Has(k, "find", "found")
              /\ Resolves(notes, updated_cards[k].ankiId)
              /\ ~Resolves(at_fetch.notes, updated_cards[k].ankiId)

C8_Witness ==
    /\ Finished
    /\ \E k \in Cards :
          /\ fetched[k].ankiId = "g9"
          /\ Has(k, "find", "absent")
          /\ updated_cards[k].ankiId \notin {"g9", None}
    /\ \E k \in Cards :
          /\ Has(k, "find", "found")
          /\ InChanged(k)
          /\ updated_cards[k].ankiId = "g1"

\* C9 as stated: a fetched card has updated = False only if the server
\* acknowledged its PUT.
C9_AsStated ==
    \A k \in Cards :
        (fetched[k].updated /\ ~updated_cards[k].updated) => Acked(k)

\* C9, amended: a card's updated flag is cleared in memory only after its local
\* create or update succeeded (just before the PUT is sent); the server's copy
\* of the flag is cleared, and the card is in changed_cards, only if the server
\* acknowledged the PUT.
C9_ClearedOnAck ==
    \A k \in Cards :
        /\ fetched[k].updated
        /\ ~updated_cards[k].updated => LocallyWritten(k)
        /\ ~remote[fetched[k].id].updated => Acked(k)
        /\ InChanged(k) => Acked(k) /\ ~updated_cards[k].updated

C9_Witness ==
    /\ Finished
    /\ \E k \in Cards :
          /\ Has(k, "put", "fail")
          /\ ~updated_cards[k].updated
          /\ remote[fetched[k].id].updated
    /\ \E k \in Cards : Acked(k) /\ ~remote[fetched[k].id].updated

\* C17: a card whose PUT failed was created or updated locally and its note is
\* in the collection; the server's record is as it was fetched (still updated,
\* with the ankiId it had); and the next successful fetch returns that record.
C17_AtLeastOnce ==
    /\ \A k \in Cards :
          Has(k, "put", "fail") =>
              /\ LocallyWritten(k)
              /\ Resolves(notes, updated_cards[k].ankiId)
              /\ remote[fetched[k].id] = asdict(fetched[k])
              /\ remote[fetched[k].id].updated
              /\ \E j \in 1..Len(Pending(remote)) :
                    Pending(remote)[j].id = fetched[k].id
    /\ (run >= 2 /\ FetchOk) =>
          \A id \in prev.unacked :
              \E k \in Cards : /\ fetched[k].id = id
                                /\ fetched[k] = FromRaw(at_fetch.remote[id])
                                /\ fetched[k].updated

C17_Witness ==
    /\ run = 2
    /\ FetchOk
    /\ prev.unacked = {1, 2}
    /\ Len(fetched) = 2
    /\ fetched[1].ankiId = None
    /\ fetched[2].ankiId = "g1"
    /\ Cardinality(notes) >= 2

\* C18 as stated: when the server holds one record, a run created its note and
\* its PUT failed, the collection never holds more than one note for it,
\* however many runs follow.
C18_AsStated ==
    (/\ Len(remote) = 1
     /\ run >= 2
     /\ prev.unacked = {1}
     /\ at_fetch.remote[1].ankiId = None)
    => Cardinality(notes) <= Cardinality(InitNotes) + 1

\* C20: a fetched card whose ankiId is not None and is the guid of no note is
\* never passed to update_existing_card and, unless an earlier call for it
\* raised, is passed to create_new_card; when that returns a guid, a note the
\* collection did not have exists under it, the card carries it, and the record
\* the server acknowledges carries it with the flag cleared.
C20_DriftRecovery ==
    \A k \in Cards :
        (fetched[k].ankiId # None /\ ~Resolves(at_fetch.notes, fetched[k].ankiId))
        => /\ ~Called(k, "update")
           /\ Done(k) => \/ Called(k, "create")
                         \/ Has(k, "resolveCategory", "raise")
                         \/ Has(k, "find", "raise")
           /\ Has(k, "create", "ref") =>
                 /\ updated_cards[k].ankiId # fetched[k].ankiId
                 /\ Resolves(notes, updated_cards[k].ankiId)
                 /\ ~Resolves(at_fetch.notes, updated_cards[k].ankiId)
                 /\ NoteOf(notes, updated_cards[k].ankiId).front = fetched[k].front
                 /\ NoteOf(notes, updated_cards[k].ankiId).back = fetched[k].back
           /\ Acked(k) =>
                 /\ remote[fetched[k].id].ankiId = updated_cards[k].ankiId
                 /\ ~remote[fetched[k].id].updated

C20_Witness ==
    /\ Finished
    /\ result = "returned"
    /\ \E k \in Cards :
          /\ fetched[k].ankiId = "g9"
          /\ Has(k, "find", "absent")
          /\ Has(k, "create", "ref")
          /\ Acked(k)
          /\ remote[fetched[k].id].ankiId = updated_cards[k].ankiId
          /\ Resolves(notes, remote[fetched[k].id].ankiId)
    /\ \E k \in Cards : fetched[k].ankiId = "" /\ Has(k, "create", "ref")

\* C21: a card for which create_new_card returned None gets no PUT, is not in
\* changed_cards, keeps the ankiId and updated it was fetched with (in memory
\* and on the server), and the loop goes on: the run does not raise and every
\* later card is visited.
C21_SkipOnRejectedCreate ==
    \A k \in Cards :
        Has(k, "create", "none") =>
            /\ ~Called(k, "put")
            /\ ~InChanged(k)
            /\ updated_cards[k] = fetched[k]
            /\ remote[fetched[k].id] = asdict(fetched[k])
            /\ idx > k
            /\ result # "VocabularyAPIError"
            /\ Finished =>
                  /\ result = "returned"
                  /\ \A j \in Cards : j > k => Called(j, "resolveCategory")

C21_Witness ==
    /\ Finished
    /\ Len(updated_cards) = 2
    /\ Has(1, "create", "none")
    /\ fetched[1].front = "hund"
    /\ ProcessedOk(2)
    /\ changed_cards = <<2>>

\* C22 as stated: a run in which every card is skipped (none gets a PUT)
\* leaves the collection, decks included, as it was at the fetch.
C22_AsStated ==
    (Finished /\ result = "returned" /\ \A k \in Cards : ~Called(k, "put"))
    => notes = at_fetch.notes /\ decks = at_fetch.decks

\* C22, amended: of the steps of processing a card, resolving its deck changes
\* no note and adds at most the card's deck; the lookup and the PUT change
\* nothing in the collection; a create that returns None, an update that
\* returns False and a create or update that raises before writing leave the
\* notes as they were; a create that raises after addNote leaves the one note
\* it added, an update that raises after update_note leaves the one note it
\* rewrote; no step but the first changes the decks.
C22_SkipLeavesNotes ==
    [][/\ pc = "deck" =>
             /\ notes' = notes
             /\ decks \subseteq decks'
             /\ \A d \in decks' \ decks : d.name = updated_cards[idx].deck
       /\ pc \in {"find", "put"} => notes' = notes /\ decks' = decks
       /\ pc = "write" =>
             LET res == calls'[Len(calls')].res IN
             /\ decks' = decks
             /\ res \in {"none", "false", "raise"} => notes' = notes
             /\ res = "added_raise" =>
                   /\ notes \subseteq notes'
                   /\ Cardinality(notes') = Cardinality(notes) + 1
             /\ res = "updated_raise" =>
                   /\ {n.id : n \in notes'} = {n.id : n \in notes}
                   /\ \A n \in notes \ notes' : n.guid = updated_cards[idx].ankiId
      ]_vars

C22_Witness ==
    /\ Finished
    /\ result = "returned"
    /\ Len(updated_cards) = 1
    /\ fetched[1].deck = "B"
    /\ Has(1, "create", "none")
    /\ notes = at_fetch.notes
    /\ HasDeck(decks, "B")
    /\ ~HasDeck(at_fetch.decks, "B")

\* C23: changed_cards is sound. At every point of a run, and so in the
\* CardResult it returns, changed_cards lists positions of the fetched list in
\* strictly increasing order (a subsequence, each card at most once), and every
\* card in it is the fetched record of that position, has a non-empty ankiId,
\* updated = False, a local create that returned a guid or a local update that
\* returned True in this run, and a PUT of this run that succeeded.
C23_ChangedSound ==
    /\ \A i, j \in 1..Len(changed_cards) :
           i < j => changed_cards[i] < changed_cards[j]
    /\ \A i \in 1..Len(changed_cards) :
           LET k == changed_cards[i] IN
           /\ k \in Cards
           /\ Len(fetched) = Len(updated_cards)
           /\ updated_cards[k].id = fetched[k].id
           /\ updated_cards[k].ankiId # None
           /\ Truthy(updated_cards[k].ankiId)
           /\ updated_cards[k].updated = FALSE
           /\ LocallyWritten(k)
           /\ Acked(k)
    /\ FetchRaised => changed_cards = <<>>

\* A returned run over two cards whose first card was skipped at its PUT and
\* whose second card, updated locally, is the only one in changed_cards.
C23_Witness ==
    /\ Finished /\ result = "returned"
    /\ Len(updated_cards) = 2
    /\ Has(1, "create", "ref") /\ Has(1, "put", "fail")
    /\ Has(2, "update", "true") /\ Has(2, "put", "ok")
    /\ changed_cards = <<2>>

\* The place of a call in the processing of one card.
Rank(op) ==
    IF op = "resolveCategory" THEN 1
    ELSE IF op = "find" THEN 2
    ELSE IF op \in {"create", "update"} THEN 3
    ELSE 4

\* C24: processing within a run is strictly sequential. In the run's calls,
\* after the fetch, every call for a card comes before every call for a later
\* card; the calls for one card come in the order resolveCategory, find,
\* create or update, PUT, each at most once, none without the one before it
\* (find excepted); and find is called exactly for the cards whose ankiId is
\* non-empty.
C24_Sequential ==
    /\ \A i, j \in 2..Len(calls) :
           i < j =>
               /\ calls[i].card \in Cards
               /\ calls[i].card <= calls[j].card
               /\ calls[i].card = calls[j].card
                      => Rank(calls[i].op) < Rank(calls[j].op)
    /\ \A k \in Cards :
           /\ Called(k, "find") => Truthy(fetched[k].ankiId) /\ Called(k, "resolveCategory")
           /\ (Called(k, "create") \/ Called(k, "update")) =>
                  /\ Has(k, "resolveCategory", "ok")
                  /\ Truthy(fetched[k].ankiId) => Called(k, "find")
           /\ Called(k, "put") => LocallyWritten(k)
           /\ ~(Called(k, "create") /\ Called(k, "update"))

\* A run has made all four calls for its first card and has gone on to the
\* local calls of its second.
C24_Witness ==
    /\ Len(updated_cards) = 2
    /\ Called(1, "resolveCategory") /\ Called(1, "find")
    /\ Called(1, "update") /\ Called(1, "put")
    /\ Called(2, "resolveCategory") /\ Called(2, "create")

\* The positions in the run's calls of the calls `op` for card k.
CallsOf(k, op) == {i \in 1..Len(calls) : calls[i].card = k /\ calls[i].op = op}
Puts == {i \in 1..Len(calls) : calls[i].op = "put"}

\* C25: the remote call budget of a run. A run makes exactly one fetch, its
\* first call; at most one PUT per fetched card, so at most as many PUTs as
\* cards; and a PUT for a card is made only after the create for that card
\* returned a guid or the update for that card returned True in the same run.
\* A run whose fetch failed makes no other call.
C25_RemoteBudget ==
    /\ run = 0 => calls = <<>>
    /\ run > 0 =>
           /\ calls[1].op = "fetch"
           /\ \A i \in 2..Len(calls) : calls[i].op # "fetch"
    /\ FetchRaised => Len(calls) = 1
    /\ \A k \in Cards : Cardinality(CallsOf(k, "put")) <= 1
    /\ Cardinality(Puts) <= Len(updated_cards)
    /\ \A i \in Puts :
           \E j \in 1..(i - 1) :
               \/ calls[j] = Call("create", calls[i].card, "ref")
               \/ calls[j] = Call("update", calls[i].card, "true")

\* A returned run over two cards that made one fetch and one PUT: the first
\* card's create returned None, the second card was written and sent.
C25_Witness ==
    /\ Finished /\ result = "returned"
    /\ Len(updated_cards) = 2
    /\ Has(1, "create", "none") /\ CallsOf(1, "put") = {}
    /\ LocallyWritten(2) /\ Cardinality(CallsOf(2, "put")) = 1
    /\ Cardinality(Puts) = 1

\* The deck names of the records and of the collection.
DeckNames == {c.deck : c \in CardPool} \cup {d.name : d \in InitDecks}

\* C27: get_or_create_deck_id resolves or creates, and is idempotent. In every
\* collection a run reaches and for every name, the call (the collection
\* answering) does not raise and returns the id of the deck of that name: the
\* existing deck's, the decks unchanged, when there is one, and otherwise that
\* of the one deck it adds; a second call with the name returns the same id and
\* adds no deck. So no two decks share a name or an id, the deck_id a card is
\* written with is that of the deck of its name, and the notes of the cards of
\* a run written locally under one deck name are all in that one deck.
C27_ResolveOrCreate ==
    /\ \A d, e \in decks : (d.name = e.name \/ d.id = e.id) => d = e
    /\ \A name \in DeckNames :
           LET r == get_or_create_deck_id(decks, name, "ok")
               again == get_or_create_deck_id(r.decks, name, "ok")
           IN  /\ ~r.raised
               /\ \E d \in r.decks : d.name = name /\ d.id = r.id
               /\ HasDeck(decks, name) =>
                      r.decks = decks /\ r.id = DeckNamed(decks, name).id
               /\ ~HasDeck(decks, name) =>
                      /\ decks \subseteq r.decks
                      /\ Cardinality(r.decks) = Cardinality(decks) + 1
               /\ ~again.raised
               /\ again.id = r.id
               /\ again.decks = r.decks
    /\ pc \in {"find", "write"} =>
           /\ HasDeck(decks, updated_cards[idx].deck)
           /\ deck_id = DeckNamed(decks, updated_cards[idx].deck).id
    /\ \A k \in Cards :
           LocallyWritten(k) =>
               /\ Resolves(notes, updated_cards[k].ankiId)
               /\ HasDeck(decks, fetched[k].deck)
               /\ NoteOf(notes, updated_cards[k].ankiId).did
                      = DeckNamed(decks, fetched[k].deck).id

\* Two cards of deck B in one run, deck B missing at the fetch: the first
\* card's call created the deck, the second card's call reused it, and both
\* notes are in it.
C27_Witness ==
    /\ Len(updated_cards) = 2
    /\ fetched[1].deck = "B" /\ fetched[2].deck = "B"
    /\ ~HasDeck(at_fetch.decks, "B")
    /\ LocallyWritten(1) /\ LocallyWritten(2)
    /\ updated_cards[1].ankiId # updated_cards[2].ankiId
    /\ Cardinality(decks) = Cardinality(at_fetch.decks) + 1
    /\ NoteOf(notes, updated_cards[1].ankiId).did
           = NoteOf(notes, updated_cards[2].ankiId).did

\* C32: a malformed fetch payload fails the whole run. When an entry of the
\* response body cannot be decoded (a key FlashCard does not know, or a
\* required key missing), whatever its position, the run is over at once with
\* VocabularyAPIError: no adapter call and no PUT is made for any entry of the
\* body, no card is returned, and the collection and the server's records are
\* as they were.
C32_MalformedPayloadAborts ==
    FetchMalformed =>
        /\ pc = "idle"
        /\ result = "VocabularyAPIError"
        /\ Len(calls) = 1
        /\ updated_cards = <<>>
        /\ changed_cards = <<>>
        /\ notes = at_fetch.notes /\ decks = at_fetch.decks
        /\ remote = at_fetch.remote

\* A run over a body of two entries, one of them with an unknown key, is over.
C32_Witness ==
    /\ Finished
    /\ calls = <<Call("fetch", 0, "unknown_field")>>
    /\ Len(Pending(at_fetch.remote)) = 2
    /\ result = "VocabularyAPIError"

\* C34: with one run at a time and no one else writing to the collection, the
\* update path never meets a missing note. Every update_existing_card call of
\* a run comes right after the find_note_by_guid call for the same card, which
\* found a note; the note is still there at the call, so the call never returns
\* False. The False answer belongs to a collection that lost the note between
\* the two calls: on the collection without that note the same call returns
\* False and writes nothing.
C34_UpdateFindsNote ==
    /\ \A i \in 1..Len(calls) :
           calls[i].op = "update" =>
               /\ calls[i].res # "false"
               /\ i > 1
               /\ calls[i - 1] = Call("find", calls[i].card, "found")
    /\ (pc = "write" /\ ~CreatePath(updated_cards[idx], existing_note_id)) =>
           LET flashcard == updated_cards[idx]
               gone == {n \in notes : n.guid # flashcard.ankiId}
           IN  /\ Truthy(flashcard.ankiId)
               /\ Resolves(notes, flashcard.ankiId)
               /\ existing_note_id = find_note_by_guid(notes, flashcard.ankiId)
               /\ update_existing_card(notes, flashcard, deck_id, "ok").ok
               /\ update_existing_card(gone, flashcard, deck_id, "ok")
                      = [raised |-> FALSE, ok |-> FALSE, notes |-> gone]

\* A run has found the note of its first card and updated it.
C34_Witness ==
    /\ Len(calls) >= 4
    /\ calls[3] = Call("find", 1, "found")
    /\ calls[4] = Call("update", 1, "true")
    /\ fetched[1].ankiId = "g1"

\* ------------------------------------------------ runs repeated for ever
\* synchronize_updated_cards called again once MaxRuns runs have been counted:
\* the same call, the count of runs staying at its bound.
FetchAgain ==
    /\ pc = "idle"
    /\ run = MaxRuns
    /\ \E env \in Answers(FetchEnvs, "ok") : \E bad \in BadAt(remote, env) :
         LET r == fetch_updated_flashcards(remote, env, bad) IN
         /\ Counted(env, "ok")
         /\ prev' = Summary
         /\ at_fetch' = [remote |-> remote, notes |-> notes, decks |-> decks]
         /\ calls' = <<Call("fetch", 0, env)>>
         /\ changed_cards' = <<>>
         /\ updated_cards' = r.cards
         /\ fetched' = r.cards
         /\ idx' = 1
         /\ IF r.raised
            THEN pc' = "idle" /\ result' = OuterHandler(r.kind)
            ELSE /\ pc' = IF Len(r.cards) >= 1 THEN "deck" ELSE "return"
                 /\ result' = "none"
    /\ UNCHANGED <<remote, notes, decks, run, deck_id, existing_note_id, file,
                   parsed, imp, handlers, script>>

NextLive == Next \/ FetchAgain

\* Runs are repeated for ever and each run goes on to its end; the environment
\* gives all but MaxFaults of its answers as usual (the fetch and the PUTs
\* succeed, no collection call raises, a note with a non-empty field is added).
SpecLive == Init /\ [][NextLive]_vars /\ WF_vars(NextLive)

\* A record with a non-empty front and back.
Acceptable(r) == r.front # "" /\ r.back # ""
StillPending == {id \in 1..Len(remote) : Acceptable(remote[id]) /\ remote[id].updated}

\* C19: under repeated runs in which, from some run on, the fetch and every
\* PUT succeed, no collection call raises and the collection adds the notes it
\* is given, every record with a non-empty front and back eventually stops
\* being flagged updated on the server, for good; this includes a record whose
\* note was created in a run whose PUT failed.
C19_EventualAck == <>[](StillPending = {})

C19_Witness ==
    /\ run >= 2
    /\ prev.unacked = {1}
    /\ at_fetch.remote[1].ankiId = None
    /\ Acceptable(remote[1])
    /\ Acked(1)
    /\ StillPending = {}


\* A run is under way: synchronize_updated_cards has been called and has
\* neither returned nor raised.
InRun == pc \in {"deck", "find", "write", "put", "return"}
\* The steps a run under way has left at most: four for the card in hand and
\* for each card after it, less those taken for the card in hand, and the
\* return.
StepsLeft ==
    IF pc = "return" THEN 1
    ELSE IF InRun
    THEN 4 * (Len(updated_cards) - idx) + 2
           + (IF pc = "deck" THEN 3 ELSE IF pc = "find" THEN 2
              ELSE IF pc = "write" THEN 1 ELSE 0)
    ELSE 0
\* How a run that is over went.
RunOutcome ==
    /\ InRun => FetchOk /\ idx \in Cards \cup {Len(updated_cards) + 1}
    /\ Finished =>
           \/ result = "VocabularyAPIError" /\ FetchRaised /\ Len(calls) = 1
           \/ /\ result = "returned" /\ FetchOk
              /\ \A k \in Cards :
                     /\ Cardinality(CallsOf(k, "resolveCategory")) = 1
                     /\ \A op \in {"find", "create", "update", "put"} :
                            Cardinality(CallsOf(k, op)) <= 1

\* C26: a run terminates. Every step of a run under way lowers the number of
\* steps it has left, a natural number, whatever the outcome of the step
\* (success, None or False, an exception, a failed PUT); a run under way
\* always comes to its end; and a run ends either at a failed fetch, with no
\* other call made, or by returning after one resolveCategory call for each
\* fetched card and at most one of every other call: no abort between cards,
\* no card taken twice.
C26_RunTerminates ==
    /\ [][InRun => StepsLeft' < StepsLeft /\ StepsLeft' >= 0]_vars
    /\ []RunOutcome
    /\ (InRun ~> Finished)

\* A returned run over two cards with all four outcomes but success: the first
\* card's create returned None, the second card's PUT failed.
C26_Witness ==
    /\ Finished /\ result = "returned"
    /\ Len(updated_cards) = 2
    /\ Has(1, "create", "none")
    /\ LocallyWritten(2) /\ Has(2, "put", "fail")
    /\ changed_cards = <<>>

\* ------------------------------------------------------ parse_file runs
IdleSync ==
    /\ remote = <<>>
    /\ notes = InitNotes
    /\ decks = InitDecks
    /\ pc = "off"
    /\ run = 0
    /\ updated_cards = <<>>
    /\ fetched = <<>>
    /\ idx = 1
    /\ deck_id = 0
    /\ existing_note_id = NoRow
    /\ changed_cards = <<>>
    /\ result = "none"
    /\ calls = <<>>
    /\ prev = NoRun
    /\ at_fetch = [remote |-> remote, notes |-> notes, decks |-> decks]
    /\ faults = 0

InitParse ==
    /\ IdleSync
    /\ \E st \in {"missing", "unreadable", "ok"} :
       \E n \in 0..MaxLines : \E ls \in [1..n -> LinePool] :
          /\ st # "ok" => n = 0
          /\ file = [state |-> st, lines |-> ls]
    /\ parsed = NotRun
    /\ imp = NoImport
    /\ handlers = NoHandlers
    /\ script = NoScript

ParseFile ==
    /\ parsed.status = "none"
    /\ parsed' = parse_file(file)
    /\ UNCHANGED <<file, remote, notes, decks, pc, run, updated_cards, fetched, idx,
                   deck_id, existing_note_id, changed_cards, result, calls, prev,
                   at_fetch, faults, imp, handlers, script>>

NextParse == ParseFile

SpecParse == InitParse /\ [][NextParse]_vars

\* ------------------------------------------------------ parse_file claims
Parsed == parsed.status # "none" /\ file.state = "ok"
IsGarbage(n) == file.lines[n].kind = "garbage"
\* The first line that is not blank and not JSON, or 0.
FirstGarbage ==
    IF \E n \in 1..Len(file.lines) : IsGarbage(n)
    THEN CHOOSE n \in 1..Len(file.lines) :
            IsGarbage(n) /\ \A m \in 1..(n - 1) : ~IsGarbage(m)
    ELSE 0
\* A line _parse_line passes: blank, or a JSON object with front and back.
Passes(line) ==
    \/ line.kind = "blank"
    \/ line.kind = "object" /\ {"front", "back"} \subseteq line.has

\* C10 as stated: the parse fails with FileImportError naming the first line that
\* is not blank and not JSON, whatever the other lines are.
C10_AsStated ==
    (Parsed /\ FirstGarbage # 0)
    => parsed = Raised("FileImportError", "Invalid JSON", FirstGarbage, "")

\* C10, amended: when every line before the first line that is not blank and not
\* JSON is blank or a JSON object with front and back, the parse fails with
\* FileImportError "Invalid JSON" naming that line's 1-based physical position.
C10_InvalidJsonLineNumber ==
    (/\ Parsed
     /\ FirstGarbage # 0
     /\ \A m \in 1..(FirstGarbage - 1) : Passes(file.lines[m]))
    => parsed = Raised("FileImportError", "Invalid JSON", FirstGarbage, "")

C10_Witness ==
    /\ Parsed
    /\ Len(file.lines) = 3
    /\ file.lines[1].kind = "blank"
    /\ file.lines[2].kind = "object"
    /\ file.lines[3].kind = "garbage"
    /\ parsed = Raised("FileImportError", "Invalid JSON", 3, "")

\* The first line _parse_line does not pass, or 0.
FirstReject ==
    IF \E n \in 1..Len(file.lines) : ~Passes(file.lines[n])
    THEN CHOOSE n \in 1..Len(file.lines) :
            ~Passes(file.lines[n]) /\ \A m \in 1..(n - 1) : Passes(file.lines[m])
    ELSE 0

\* C11: when the first line the parse does not pass is a JSON object lacking
\* front or back, the parse fails with FileImportError "Missing required field"
\* naming that line's 1-based position and the missing key, front when both are
\* missing, and returns no cards.
C11_MissingRequiredField ==
    (Parsed /\ FirstReject # 0 /\ file.lines[FirstReject].kind = "object")
    => parsed = Raised("FileImportError", "Missing required field", FirstReject,
                       IF "front" \in file.lines[FirstReject].has
                       THEN "back" ELSE "front")

C11_Witness ==
    /\ Parsed
    /\ Len(file.lines) = 3
    /\ file.lines[1].kind = "blank"
    /\ file.lines[2] = Obj(NoVal)
    /\ file.lines[3].kind = "object" /\ file.lines[3].has = {"front"}
    /\ parsed = Raised("FileImportError", "Missing required field", 2, "front")

\* C12 as stated: a parse that fails raises FileImportError, whatever the cause
\* (missing path, unreadable path, invalid JSON, JSON that is not an object,
\* missing required field), and returns no cards.
C12_AsStated ==
    parsed.status = "raised" =>
        parsed.type = "FileImportError" /\ parsed.cards = <<>>

\* The lines of the file that are not blank, in file order.
NonBlank == SelectSeq(file.lines, LAMBDA l : l.kind # "blank")

\* C16: when every line is blank or a JSON object with front and back, the
\* parse returns one card per non-blank line, in file order, with that line's
\* front and back, and get_summary of the result counts the non-blank lines in
\* both orientations.
C16_BlankLinesSkipped ==
    (Parsed /\ \A n \in 1..Len(file.lines) : Passes(file.lines[n])) =>
        /\ parsed.status = "returned"
        /\ Len(parsed.cards) = Len(NonBlank)
        /\ \A i \in 1..Len(NonBlank) :
              /\ parsed.cards[i].front = NonBlank[i].val["front"].v
              /\ parsed.cards[i].back = NonBlank[i].val["back"].v
        /\ get_summary(parsed.cards) =
              [forward_count |-> Len(NonBlank), reverse_count |-> Len(NonBlank)]

C16_Witness ==
    /\ Parsed
    /\ Len(file.lines) = 3
    /\ file.lines[2].kind = "blank"
    /\ parsed.status = "returned"
    /\ Len(parsed.cards) = 2
    /\ parsed.cards[1].front = "hund"
    /\ parsed.cards[2].front = "alt"

\* The text of a JSON string of the file as the file has it.
Text(value) == value.v

\* C33: empty faces round-trip through the parser. A JSON object line with
\* front and back is accepted whatever their text, the empty string included;
\* in a returned parse the card of each non-blank line has, for the string
\* values among front, back and description, exactly the line's text, the
\* empty string staying the empty string; and a key the line does not have
\* takes its default: deck "", description "", updated False, id None,
\* ankiId None.
C33_EmptyFacesRoundTrip ==
    /\ \A l \in LinePool :
           (l.kind = "object" /\ {"front", "back"} \subseteq l.has) =>
               /\ \A n \in 1..MaxLines : _parse_line(l, n).status = "returned"
               /\ Len(_parse_line(l, 1).cards) = 1
    /\ (Parsed /\ parsed.status = "returned") =>
           /\ Len(parsed.cards) = Len(NonBlank)
           /\ \A i \in 1..Len(NonBlank) :
                  LET l == NonBlank[i]
                      c == parsed.cards[i]
                  IN  /\ l.val["front"].t = "str" => c.front = Text(l.val["front"])
                      /\ l.val["back"].t = "str" => c.back = Text(l.val["back"])
                      /\ l.val["front"] = JStr("") => c.front = ""
                      /\ l.val["back"] = JStr("") => c.back = ""
                      /\ IF "description" \in l.has
                         THEN l.val["description"].t = "str"
                                  => c.description = Text(l.val["description"])
                         ELSE c.description = ""
                      /\ "deck" \notin l.has => c.deck = JStr("")
                      /\ "updated" \notin l.has => c.updated = FALSE
                      /\ "id" \notin l.has => c.id = JNull
                      /\ "ankiId" \notin l.has => c.ankiId = JNull

\* A returned parse of a file with a line of two empty faces and a
\* line that has a description and an ankiId.
C33_Witness ==
    /\ Parsed /\ parsed.status = "returned"
    /\ Len(file.lines) = 2
    /\ file.lines[1] = Obj([k \in {"front", "back"} |-> JStr("")])
    /\ "description" \in file.lines[2].has
    /\ Len(parsed.cards) = 2
    /\ parsed.cards[1].front = "" /\ parsed.cards[1].back = ""
    /\ parsed.cards[1].ankiId = JNull
    /\ parsed.cards[2].description = "Tier"

\* ------------------------------------------------------ import_cards
\* SyncConfig.import_deck_forward_name, import_deck_reverse_name
import_deck_forward_name == "Language A->B"
import_deck_reverse_name == "Language B->A"

\* lines 104-112: the forward card of a parsed card
forward_card(card) ==
    FlashCard(import_deck_forward_name, card.front, card.back, FALSE, card.id,
              card.ankiId, card.description)

\* lines 118-126: the reverse card, front and back swapped, ankiId None
\* (variant: front and back not swapped)
reverse_card_mutNoSwap(card) ==
    FlashCard(import_deck_reverse_name, card.front, card.back, FALSE, card.id,
              JNull, card.description)
reverse_card(card) ==
    FlashCard(import_deck_reverse_name, card.back, card.front, FALSE, card.id,
              JNull, card.description)

\* The lines parse_file makes a card of.
CardLines == {l \in LinePool : l.kind = "object" /\ MissingKey(l) = ""}

\* import_cards called with the cards of a parsed file and the two
\* orientation flags; the server holds a pending record.
InitImport ==
    /\ remote = <<asdict(FlashCard("A", "hund", "dog", TRUE, 1, None, "Tier"))>>
    /\ notes = InitNotes
    /\ decks = InitDecks
    /\ pc = "import"
    /\ run = 0
    /\ updated_cards = <<>>
    /\ fetched = <<>>
    /\ idx = 1
    /\ deck_id = 0
    /\ existing_note_id = NoRow
    /\ changed_cards = <<>>
    /\ result = "none"
    /\ calls = <<>>
    /\ prev = NoRun
    /\ at_fetch = [remote |-> remote, notes |-> notes, decks |-> decks]
    /\ faults = 0
    /\ \E n \in 0..MaxCards : \E ls \in [1..n -> CardLines] :
          /\ file = [state |-> "ok", lines |-> ls]
          /\ parsed = parse_file(file)
    /\ \E f \in BOOLEAN, r \in BOOLEAN :
          imp = [NoImport EXCEPT !.cards = parsed.cards,
                                 !.import_forward = f, !.import_reverse = r]
    /\ handlers = NoHandlers
    /\ script = NoScript

\* An exception raised in import_cards: nothing catches it.
ImportRaise ==
    /\ pc' = "imported"
    /\ result' = "Exception"
    /\ UNCHANGED <<idx, imp>>

\* lines 93-95: forward_deck_id = get_or_create_deck_id(forward name)
ImportForwardDeck ==
    /\ pc = "import"
    /\ \E env \in Answers({"ok", "raise"}, "ok") :
         LET r == get_or_create_deck_id(decks, import_deck_forward_name, env) IN
         /\ Counted(env, "ok")
         /\ calls' = Append(calls, Call("resolveCategory", 0, env))
         /\ decks' = r.decks
         /\ IF r.raised
            THEN ImportRaise
            ELSE /\ imp' = [imp EXCEPT !.forward_deck_id = r.id]
                 /\ pc' = "import_reverse_deck"
                 /\ UNCHANGED <<idx, result>>
    /\ UNCHANGED <<remote, notes, run, updated_cards, fetched, deck_id,
                   existing_note_id, changed_cards, prev, at_fetch, file, parsed,
                   handlers, script>>

\* lines 96-100: reverse_deck_id = get_or_create_deck_id(reverse name)
ImportReverseDeck ==
    /\ pc = "import_reverse_deck"
    /\ \E env \in Answers({"ok", "raise"}, "ok") :
         LET r == get_or_create_deck_id(decks, import_deck_reverse_name, env) IN
         /\ Counted(env, "ok")
         /\ calls' = Append(calls, Call("resolveCategory", 0, env))
         /\ decks' = r.decks
         /\ IF r.raised
            THEN ImportRaise
            ELSE /\ imp' = [imp EXCEPT !.reverse_deck_id = r.id]
                 /\ pc' = IF Len(imp.cards) >= 1 THEN "forward" ELSE "import_return"
                 /\ UNCHANGED <<idx, result>>
    /\ UNCHANGED <<remote, notes, run, updated_cards, fetched, deck_id,
                   existing_note_id, changed_cards, prev, at_fetch, file, parsed,
                   handlers, script>>

\* The result of create_new_card as the calls log records it.
CreateRes(r, env) == IF r.raised THEN env ELSE IF r.guid = None THEN "none" ELSE "ref"

\* lines 103-115: the forward card of the current card
ImportForward ==
    /\ pc = "forward"
    /\ LET flashcard == forward_card(imp.cards[idx]) IN
       IF imp.import_forward
       THEN \E env \in Answers(CreateEnvs(flashcard), UsualCreate(flashcard)) :
              LET r == create_new_card(notes, flashcard, imp.forward_deck_id, env) IN
              /\ Counted(env, UsualCreate(flashcard))
              /\ notes' = r.notes
              /\ calls' = Append(calls, Call("create", idx, CreateRes(r, env)))
              /\ IF r.raised
                 THEN ImportRaise
                 ELSE /\ imp' = IF Truthy(r.guid)
                                THEN [imp EXCEPT !.changed_cards = Append(@, flashcard)]
                                ELSE imp
                      /\ pc' = "reverse"
                      /\ UNCHANGED <<idx, result>>
       ELSE /\ pc' = "reverse"
            /\ UNCHANGED <<notes, calls, faults, imp, idx, result>>
    /\ UNCHANGED <<remote, decks, run, updated_cards, fetched, deck_id,
                   existing_note_id, changed_cards, prev, at_fetch, file, parsed,
                   handlers, script>>

\* lines 117-129: the reverse card of the current card, then the next card
ImportReverse ==
    /\ pc = "reverse"
    /\ LET flashcard == reverse_card(imp.cards[idx])
           next == IF idx + 1 <= Len(imp.cards) THEN "forward" ELSE "import_return"
       IN
       IF imp.import_reverse
       THEN \E env \in Answers(CreateEnvs(flashcard), UsualCreate(flashcard)) :
              LET r == create_new_card(notes, flashcard, imp.reverse_deck_id, env) IN
              /\ Counted(env, UsualCreate(flashcard))
              /\ notes' = r.notes
              /\ calls' = Append(calls, Call("create", idx, CreateRes(r, env)))
              /\ IF r.raised
                 THEN ImportRaise
                 ELSE /\ imp' = IF Truthy(r.guid)
                                THEN [imp EXCEPT !.changed_cards = Append(@, flashcard)]
                                ELSE imp
                      /\ pc' = next
                      /\ idx' = idx + 1
                      /\ UNCHANGED result
       ELSE /\ pc' = next
            /\ idx' = idx + 1
            /\ UNCHANGED <<notes, calls, faults, imp, result>>
    /\ UNCHANGED <<remote, decks, run, updated_cards, fetched, deck_id,
                   existing_note_id, changed_cards, prev, at_fetch, file, parsed,
                   handlers, script>>

\* lines 131-140: return CardResult(changes, changed_cards)
ImportReturn ==
    /\ pc = "import_return"
    /\ pc' = "imported"
    /\ result' = "returned"
    /\ UNCHANGED <<remote, notes, decks, run, updated_cards, fetched, idx, deck_id,
                   existing_note_id, changed_cards, calls, prev, at_fetch, faults,
                   file, parsed, imp, handlers, script>>

NextImport ==
    ImportForwardDeck \/ ImportReverseDeck \/ ImportForward \/ ImportReverse
    \/ ImportReturn

SpecImport == InitImport /\ [][NextImport]_vars

\* ------------------------------------------------------ import_cards claims
Imported == pc = "imported" /\ result = "returned"
\* Every create_new_card call of the import returned a guid.
AllAccepted ==
    \A i \in 1..Len(calls) : calls[i].op = "create" => calls[i].res = "ref"
\* A note added by the import with these fields, in the deck of this name.
Added(front, back, deck_name) ==
    \E n \in notes \ InitNotes :
        /\ n.front = front
        /\ n.back = back
        /\ HasDeck(decks, deck_name)
        /\ n.did = DeckNamed(decks, deck_name).id
IsCard(c, deck_name, front, back) ==
    c.deck = deck_name /\ c.front = front /\ c.back = back

\* C13: for one parsed card (f, b) whose notes the collection accepts,
\* import_cards with both orientations returns exactly the forward card (f, b,
\* forward deck) then the reverse card (b, f, reverse deck), each with its note
\* in that deck; with the forward orientation only it returns the forward card
\* alone.
C13_DualOrientation ==
    (Imported /\ Len(imp.cards) = 1 /\ AllAccepted /\ imp.import_forward) =>
        LET f == imp.cards[1].front
            b == imp.cards[1].back
            cc == imp.changed_cards
        IN  /\ IsCard(cc[1], import_deck_forward_name, f, b)
            /\ Added(f, b, import_deck_forward_name)
            /\ IF imp.import_reverse
               THEN /\ Len(cc) = 2
                    /\ IsCard(cc[2], import_deck_reverse_name, b, f)
                    /\ Added(b, f, import_deck_reverse_name)
               ELSE /\ Len(cc) = 1
                    /\ ~Added(b, f, import_deck_reverse_name)

C13_Witness ==
    /\ Imported
    /\ Len(imp.cards) = 1
    /\ imp.import_forward /\ imp.import_reverse
    /\ AllAccepted
    /\ Len(imp.changed_cards) = 2
    /\ IsCard(imp.changed_cards[1], "Language A->B", "hund", "dog")
    /\ IsCard(imp.changed_cards[2], "Language B->A", "dog", "hund")

\* C14: an import makes no call other than get_or_create_deck_id and
\* create_new_card, leaves the server's records as they were, and leaves every
\* note and deck the collection had as it was.
C14_ImportOnlyCreates ==
    pc \in {"import", "import_reverse_deck", "forward", "reverse",
            "import_return", "imported"} =>
        /\ remote = at_fetch.remote
        /\ \A i \in 1..Len(calls) : calls[i].op \in {"resolveCategory", "create"}
        /\ InitNotes \subseteq notes
        /\ InitDecks \subseteq decks

C14_Witness ==
    /\ Imported
    /\ Len(imp.cards) = 2
    /\ imp.cards[1].ankiId = JStr("g1")
    /\ imp.import_forward /\ imp.import_reverse
    /\ Len(imp.changed_cards) = 4
    /\ Len(Pending(remote)) = 1

\* The create_new_card calls of the import so far, in order, and how many an
\* import that runs to its end makes.
Creates == SelectSeq(calls, LAMBDA c : c.op = "create")
Orientations ==
    (IF imp.import_forward THEN 1 ELSE 0) + (IF imp.import_reverse THEN 1 ELSE 0)
CreateRaised ==
    \E j \in 1..Len(Creates) : Creates[j].res \in {"raise", "added_raise"}
\* The deck of this name has been given a note.
DeckFilled(deck_name) ==
    /\ HasDeck(decks, deck_name)
    /\ \E n \in notes : n.did = DeckNamed(decks, deck_name).id

\* C28 (as stated; the code does not have the property): an exception out of
\* create_new_card for one card or orientation leaves the import to create the
\* remaining cards and orientations and to return its CardResult.
C28_AsStated ==
    (pc = "imported" /\ CreateRaised) =>
        /\ result = "returned"
        /\ Len(Creates) = Len(imp.cards) * Orientations

\* C29 (as stated; the code does not have the property): an import with the
\* reverse orientation off neither creates the reverse deck nor gives it notes,
\* one with the forward orientation off does neither to the forward deck, and
\* one with both off leaves the collection as it was.
C29_AsStated ==
    pc = "imported" =>
        /\ ~imp.import_reverse =>
               /\ ~HasDeck(decks, import_deck_reverse_name)
               /\ ~DeckFilled(import_deck_reverse_name)
        /\ ~imp.import_forward =>
               /\ ~HasDeck(decks, import_deck_forward_name)
               /\ ~DeckFilled(import_deck_forward_name)
        /\ (~imp.import_forward /\ ~imp.import_reverse) =>
               decks = InitDecks /\ notes = InitNotes

\* The j-th create_new_card call of an import is for the forward card when
\* only the forward orientation is on, or both are and j is odd.
IsForwardCall(j) ==
    imp.import_forward /\ (imp.import_reverse => j % 2 = 1)
\* The card the j-th call should have been made with, field by field.
ExpectedCard(j) ==
    LET card == imp.cards[Creates[j].card] IN
    IF IsForwardCall(j)
    THEN [deck |-> "Language A->B", front |-> card.front, back |-> card.back,
          updated |-> FALSE, id |-> card.id, ankiId |-> card.ankiId,
          description |-> card.description]
    ELSE [deck |-> "Language B->A", front |-> card.back, back |-> card.front,
          updated |-> FALSE, id |-> card.id, ankiId |-> JNull,
          description |-> card.description]
RECURSIVE ExpectedChanged(_)
ExpectedChanged(j) ==
    IF j = 0 THEN <<>>
    ELSE IF Creates[j].res = "ref"
    THEN Append(ExpectedChanged(j - 1), ExpectedCard(j))
    ELSE ExpectedChanged(j - 1)

\* C30: the result rule of import_cards. At every point of an import, and so
\* in the CardResult it returns, changed_cards is exactly the cards whose
\* create_new_card returned a guid, in the order of the calls; the calls go
\* through the parsed cards in order, forward before reverse for one card; and
\* an import that returns has made one call for every card and every
\* orientation that is on, whatever the earlier calls returned, so a rejected
\* creation suppresses no other.
C30_ImportResultRule ==
    pc \in {"import", "import_reverse_deck", "forward", "reverse",
            "import_return", "imported"} =>
        /\ imp.changed_cards = ExpectedChanged(Len(Creates))
        /\ \A j \in 1..Len(Creates) :
               Creates[j].card = (IF Orientations = 2 THEN (j + 1) \div 2 ELSE j)
        /\ Imported =>
               /\ Len(Creates) = Len(imp.cards) * Orientations
               /\ Len(imp.changed_cards)
                      = Cardinality({j \in 1..Len(Creates) : Creates[j].res = "ref"})

\* A returned import of two cards in both orientations where the forward
\* creation of the first card was rejected: its reverse card and both cards of
\* the second are the result.
C30_Witness ==
    /\ Imported
    /\ Len(imp.cards) = 2
    /\ imp.import_forward /\ imp.import_reverse
    /\ Len(Creates) = 4
    /\ Creates[1].res = "none" /\ Creates[2].res = "ref"
    /\ Len(imp.changed_cards) = 3
    /\ imp.changed_cards[1].deck = "Language B->A"
    /\ imp.changed_cards[2].deck = "Language A->B"

\* C31 (as stated, for import_cards; the code does not have the property):
\* every card of a returned changed_cards carries as ankiId the guid of the
\* note that was created for it.
C31_AsStated ==
    Imported =>
        \A i \in 1..Len(imp.changed_cards) :
            LET c == imp.changed_cards[i] IN
            /\ c.ankiId # JNull
            /\ \E n \in notes \ InitNotes :
                   /\ JStr(n.guid) = c.ankiId
                   /\ n.front = c.front
                   /\ n.back = c.back

\* ------------------------------------------------------ the trigger server
\* A handler thread: where it is in do_POST, the request's path and the status
\* of the response it sent ("" while it has sent none).
Handler(at, path, status) == [at |-> at, path |-> path, status |-> status]

InitServer ==
    /\ IdleSync
    /\ file = NoFile
    /\ parsed = NotRun
    /\ imp = NoImport
    /\ handlers = NoHandlers
    /\ script = NoScript

\* The server's threads touch nothing but their own state here.
ServerFrame ==
    UNCHANGED <<remote, notes, decks, pc, run, updated_cards, fetched, idx,
                deck_id, existing_note_id, changed_cards, result, calls, prev,
                at_fetch, faults, file, parsed, imp, script>>

\* ThreadingHTTPServer: every request is handed to a thread of its own, which
\* runs the handler; the server goes on accepting.
Accept ==
    /\ Len(handlers) < MaxRequests
    /\ \E path \in {"/sync", "/other"} :
          handlers' = Append(handlers, Handler("do_POST", path, ""))
    /\ ServerFrame

\* do_POST, lines 30-38: 404 for any path but /sync, else call run_sync_once
DoPost(t) ==
    /\ handlers[t].at = "do_POST"
    /\ handlers' =
          [handlers EXCEPT ![t] =
              IF @.path # "/sync"
              THEN Handler("done", @.path, "NOT_FOUND")
              ELSE Handler("run_sync_once", @.path, "")]
    /\ ServerFrame

\* run_sync_once returns (success, error_message); do_POST, lines 40-48,
\* answers 200 or 500.
RunSyncOnce(t) ==
    /\ handlers[t].at = "run_sync_once"
    /\ \E success \in BOOLEAN :
          handlers' =
              [handlers EXCEPT ![t] =
                  Handler("done", @.path,
                          IF success THEN "OK" ELSE "INTERNAL_SERVER_ERROR")]
    /\ ServerFrame

NextServer ==
    \/ Accept
    \/ \E t \in 1..Len(handlers) : DoPost(t)
    \/ \E t \in 1..Len(handlers) : RunSyncOnce(t)

SpecServer == InitServer /\ [][NextServer]_vars

\* The handler threads that are inside run_sync_once.
ActiveRuns == {t \in 1..Len(handlers) : handlers[t].at = "run_sync_once"}

\* C15 as stated: at most one sync run is in progress at any time.
C15_AsStated == Cardinality(ActiveRuns) <= 1

\* ------------------------------------------------------ the headless script
\* synchronize_and_sync (sync_script.py). script.at is the statement the call
\* is at: "open" (line 58), "login" (63), "sync" (68), "reconcile" (73-74),
\* "reconciling" (inside synchronize_updated_cards), "final_login" (83),
\* "final_sync" (88), "finally" (95, with `return True` pending when exc is
\* ""), "done". script.exc is the exception on its way out, script.ret the
\* value returned, script.log the calls made, in order. The AnkiWeb sync is
\* taken not to touch the notes and decks the reconciliation works on.
Step(op, res) == [op |-> op, res |-> res]
Logged(op, res) == [script EXCEPT !.log = Append(@, Step(op, res))]

\* The statement after `at` in the body of the inner try, when `at` returned.
\* (variant: `return True` right after the reconciliation)
NextStatement_mutNoFinalSync(at) ==
    IF at = "open" THEN "login"
    ELSE IF at = "login" THEN "sync"
    ELSE IF at = "sync" THEN "reconcile"
    ELSE IF at = "reconcile" THEN "reconciling"
    ELSE "finally"
NextStatement(at) ==
    IF at = "open" THEN "login"
    ELSE IF at = "login" THEN "sync"
    ELSE IF at = "sync" THEN "reconcile"
    ELSE IF at = "reconcile" THEN "reconciling"
    ELSE IF at = "reconciling" THEN "final_login"
    ELSE IF at = "final_login" THEN "final_sync"
    ELSE "finally"

\* lines 98-103: `except VocabularyAPIError` and `except Exception` both
\* return False; line 91 returns True when nothing was raised.
\* (variant: True returned whatever was raised)
ScriptReturn_mutAlwaysTrue(exc) == "True"
ScriptReturn(exc) == IF exc = "" THEN "True" ELSE "False"

InitHeadless ==
    /\ \E n \in 0..MaxCards : \E f \in [1..n -> CardPool] :
          remote = [k \in 1..n |-> asdict([f[k] EXCEPT !.id = k])]
    /\ notes = InitNotes
    /\ decks = InitDecks
    /\ pc = "idle"
    /\ run = 0
    /\ updated_cards = <<>>
    /\ fetched = <<>>
    /\ idx = 1
    /\ deck_id = 0
    /\ existing_note_id = NoRow
    /\ changed_cards = <<>>
    /\ result = "none"
    /\ calls = <<>>
    /\ prev = NoRun
    /\ at_fetch = [remote |-> remote, notes |-> notes, decks |-> decks]
    /\ faults = 0
    /\ file = NoFile
    /\ parsed = NotRun
    /\ imp = NoImport
    /\ handlers = NoHandlers
    /\ script = Frame("open", "", "none", <<>>)

\* The script's own statements leave the synchronizer's state alone.
ScriptFrame ==
    UNCHANGED <<remote, notes, decks, pc, run, updated_cards, fetched, idx,
                deck_id, existing_note_id, changed_cards, result, calls, prev,
                at_fetch, file, parsed, imp, handlers>>

\* A statement of the inner try body calling the collection: it returns and
\* the next statement is reached, or it raises and the finally clause is.
TryStatement(at, op) ==
    /\ \E env \in Answers({"ok", "raise"}, "ok") :
         /\ Counted(env, "ok")
         /\ script' = IF env = "ok"
                      THEN [Logged(op, "ok") EXCEPT !.at = NextStatement(at)]
                      ELSE [Logged(op, "raise") EXCEPT !.at = "finally",
                                                       !.exc = "Exception"]
    /\ ScriptFrame

\* line 58: col = aopen(collection_path); an exception here is outside the
\* inner try, so no finally clause runs.
OpenCollection ==
    /\ script.at = "open"
    /\ \E env \in Answers({"ok", "raise"}, "ok") :
         /\ Counted(env, "ok")
         /\ script' = IF env = "ok"
                      THEN [Logged("open", "ok") EXCEPT !.at = NextStatement("open")]
                      ELSE [Logged("open", "raise") EXCEPT
                               !.at = "done", !.exc = "Exception",
                               !.ret = ScriptReturn("Exception")]
    /\ ScriptFrame

\* lines 63-67: auth = col.sync_login(...)
InitialLogin ==
    /\ script.at = "login"
    /\ TryStatement("login", "login")

\* line 68: col.sync_collection(auth, sync_media=True)
InitialSync ==
    /\ script.at = "sync"
    /\ TryStatement("sync", "sync")

\* lines 73-74: synchronizer.synchronize_updated_cards() is called
StartReconcile ==
    /\ script.at = "reconcile"
    /\ script' = [Logged("reconcile", "call") EXCEPT !.at = NextStatement("reconcile")]
    /\ UNCHANGED faults
    /\ ScriptFrame

\* the steps of synchronize_updated_cards, one call of it
Reconcile ==
    /\ script.at = "reconciling"
    /\ ~Finished
    /\ Next

\* line 74: the call returns its CardResult, or raises VocabularyAPIError
EndReconcile ==
    /\ script.at = "reconciling"
    /\ Finished
    /\ script' = IF result = "returned"
                 THEN [Logged("reconcile", "returned") EXCEPT
                          !.at = NextStatement("reconciling")]
                 ELSE [Logged("reconcile", "raise") EXCEPT
                          !.at = "finally", !.exc = result]
    /\ UNCHANGED faults
    /\ ScriptFrame

\* lines 83-87: auth = col.sync_login(...)
FinalLogin ==
    /\ script.at = "final_login"
    /\ TryStatement("final_login", "final_login")

\* line 88: col.sync_collection(...), then `return True` (line 91)
FinalSync ==
    /\ script.at = "final_sync"
    /\ TryStatement("final_sync", "final_sync")

\* lines 93-95: col.close() in the finally clause, then the pending return or
\* the handler of the exception on its way out (an exception out of close
\* itself included).
CloseCollection ==
    /\ script.at = "finally"
    /\ \E env \in Answers({"ok", "raise"}, "ok") :
         /\ Counted(env, "ok")
         /\ LET exc == IF env = "ok" THEN script.exc ELSE "Exception" IN
            script' = [Logged("close", env) EXCEPT
                          !.at = "done", !.exc = exc, !.ret = ScriptReturn(exc)]
    /\ ScriptFrame

NextHeadless ==
    OpenCollection \/ InitialLogin \/ InitialSync \/ StartReconcile \/ Reconcile
    \/ EndReconcile \/ FinalLogin \/ FinalSync \/ CloseCollection

SpecHeadless == InitHeadless /\ [][NextHeadless]_vars

\* ---------------------------------------------------- headless script claims
\* The positions of the script's log with a call `op`.
StepsOf(op) == {i \in 1..Len(script.log) : script.log[i].op = op}
Stepped(op, res) == \E i \in 1..Len(script.log) : script.log[i] = Step(op, res)
\* The reconciliation of this call changed the collection.
Modified == run > 0 /\ (notes # at_fetch.notes \/ decks # at_fetch.decks)

\* C35: the order of a headless run. synchronize_updated_cards is called, and
\* takes its steps, only after the initial sync_login and sync_collection have
\* both returned; the final sync_login, and after it the final
\* sync_collection, are called only after synchronize_updated_cards has
\* returned its result; and when the reconciliation has changed the notes or
\* the decks, col.close() is not called before the final sync_login has been.
C35_HeadlessOrdering ==
    /\ (run > 0 \/ pc # "idle" \/ StepsOf("reconcile") # {}) =>
           /\ Len(script.log) >= 4
           /\ SubSeq(script.log, 1, 4)
                  = <<Step("open", "ok"), Step("login", "ok"), Step("sync", "ok"),
                      Step("reconcile", "call")>>
    /\ \A i \in StepsOf("final_login") :
           /\ i = 6
           /\ script.log[5] = Step("reconcile", "returned")
           /\ Finished /\ result = "returned"
    /\ \A i \in StepsOf("final_sync") :
           i = 7 /\ script.log[6] = Step("final_login", "ok")
    /\ \A i \in StepsOf("close") :
           /\ i = Len(script.log)
           /\ Modified => \E j \in StepsOf("final_login") : j < i
    /\ (script.at = "done" /\ Modified) => StepsOf("final_login") # {}
    /\ (Modified /\ script.at \in {"reconciling", "final_login"})
           => StepsOf("close") = {}

\* A finished headless run whose reconciliation created a note: the final sync
\* came between the reconciliation and the close.
C35_Witness ==
    /\ script.at = "done"
    /\ Modified
    /\ Cardinality(notes) > Cardinality(at_fetch.notes)
    /\ Len(script.log) = 8
    /\ script.log[5] = Step("reconcile", "returned")
    /\ script.log[6] = Step("final_login", "ok")
    /\ script.log[7] = Step("final_sync", "ok")
    /\ script.log[8] = Step("close", "ok")

\* The initial sync, the reconciliation and the final sync all completed.
AllCompleted ==
    /\ Stepped("sync", "ok")
    /\ Stepped("reconcile", "returned")
    /\ Stepped("final_sync", "ok")

\* C36 (as stated): the call returns True exactly when the initial sync, the
\* reconciliation and the final sync all completed without error.
C36_AsStated ==
    script.at = "done" => (script.ret = "True" <=> AllCompleted)

\* C36, amended: once the collection is open, col.close() is called exactly
\* once on every path, as the last call, and never when the open failed; the
\* call always comes to its end and returns True or False, no exception
\* leaving it; and it returns True exactly when the initial sync, the
\* reconciliation and the final sync all completed and col.close() itself
\* returned without raising.
C36_CloseOnceAndOutcome ==
    /\ Cardinality(StepsOf("close")) <= 1
    /\ script.at \notin {"done", "off"} =>
           /\ StepsOf("close") = {}
           /\ script.ret = "none"
           /\ ENABLED NextHeadless
    /\ script.at = "done" =>
           /\ script.ret \in {"True", "False"}
           /\ IF Stepped("open", "ok")
              THEN /\ Cardinality(StepsOf("close")) = 1
                   /\ script.log[Len(script.log)].op = "close"
              ELSE /\ script.log = <<Step("open", "raise")>>
                   /\ script.ret = "False"
           /\ script.ret = "True" <=> (AllCompleted /\ Stepped("close", "ok"))
           /\ script.ret = "True" <=> script.exc = ""

\* A headless run whose three stages completed and whose col.close() raised:
\* one close call, False returned.
C36_Witness ==
    /\ script.at = "done"
    /\ AllCompleted
    /\ script.log[Len(script.log)] = Step("close", "raise")
    /\ Cardinality(StepsOf("close")) = 1
    /\ script.ret = "False"

\* ------------------------------------------------------ the legacy add-on
\* anki_voc/__init__.py: process_cards and its helpers, as functions of the
\* server's records and the collection. A legacy state is what the call has
\* in hand: the collection, the server's records, the calls made (as the
\* synchronizer's are logged), the cards to return, whether it raised.
LegacyState(ns, ds, rem, cs, changed, raised) ==
    [notes |-> ns, decks |-> ds, remote |-> rem, calls |-> cs,
     changed |-> changed, raised |-> raised]

\* requests.put(...) without raise_for_status: a non-2xx answer ("fail") is
\* printed and nothing is raised.
legacy_put(rem, card, env) ==
    IF env = "ok" THEN Upsert(rem, asdict(card)) ELSE rem

\* add_card: col.newNote(None) raises when the model is missing.
add_card(ns, card, did, env) ==
    LET note == set_note_fields(newNote(ns), card) IN
    IF env \in {"no_model", "raise"} THEN [raised |-> TRUE, guid |-> None, notes |-> ns]
    ELSE IF env = "rejected" THEN [raised |-> FALSE, guid |-> None, notes |-> ns]
    ELSE IF env = "added_raise"
    THEN [raised |-> TRUE, guid |-> None, notes |-> ns \cup {note}]
    ELSE [raised |-> FALSE, guid |-> note.guid,
          notes |-> ns \cup {add_card_to_deck(note, did)}]

\* create_and_add_card: add_card; on a guid, mark the card, PUT, True.
\* (variant: the PUT left out)
create_and_add_card_mutNoPut(st, k, card, did, env, put) ==
    LET r == add_card(st.notes, card, did, env) IN
    IF r.raised
    THEN [st EXCEPT !.notes = r.notes, !.raised = TRUE,
                    !.calls = Append(@, Call("create", k, env))]
    ELSE IF r.guid # None
    THEN [st EXCEPT !.notes = r.notes,
                    !.calls = Append(@, Call("create", k, "ref")),
                    !.changed = Append(@, MarkCreated(card, r.guid))]
    ELSE [st EXCEPT !.calls = Append(@, Call("create", k, "none"))]
create_and_add_card(st, k, card, did, env, put) ==
    LET r == add_card(st.notes, card, did, env) IN
    IF r.raised
    THEN [st EXCEPT !.notes = r.notes, !.raised = TRUE,
                    !.calls = Append(@, Call("create", k, env))]
    ELSE IF r.guid # None
    THEN [st EXCEPT !.notes = r.notes,
                    !.remote = legacy_put(@, MarkCreated(card, r.guid), put),
                    !.calls = @ \o <<Call("create", k, "ref"), Call("put", k, put)>>,
                    !.changed = Append(@, MarkCreated(card, r.guid))]
    ELSE [st EXCEPT !.calls = Append(@, Call("create", k, "none"))]

\* update_card: the note looked up by guid, rewritten and placed; then the
\* card marked, PUT, True.
update_card(st, k, card, did, env, put) ==
    LET r == update_existing_card(st.notes, card, did, env) IN
    IF r.raised
    THEN [st EXCEPT !.notes = r.notes, !.raised = TRUE,
                    !.calls = Append(@, Call("update", k, env))]
    ELSE IF r.ok
    THEN [st EXCEPT !.notes = r.notes,
                    !.remote = legacy_put(@, MarkUpdated(card), put),
                    !.calls = @ \o <<Call("update", k, "true"), Call("put", k, put)>>,
                    !.changed = Append(@, MarkUpdated(card))]
    ELSE [st EXCEPT !.calls = Append(@, Call("update", k, "false"))]

\* The body of the loop of process_cards for the k-th entry of the body: the
\* deck resolved (col.decks.id makes a missing deck), the note looked up by
\* guid whatever the ankiId, then the create or the update. The collection
\* and the server answer as usual.
LegacyCard(st, k, raw) ==
    LET card == FromRaw(raw)
        ds == WithDeck(st.decks, card.deck)
        did == DeckNamed(ds, card.deck).id
        note_id == find_note_by_guid(st.notes, card.ankiId)
        at == [st EXCEPT !.decks = ds]
    IN  IF card.ankiId = None \/ note_id = NoRow
        THEN create_and_add_card(at, k, card, did, UsualCreate(card), "ok")
        ELSE update_card(at, k, card, did, "ok", "ok")

\* process_cards from the k-th entry on; an exception ends the batch.
RECURSIVE LegacyFrom(_, _, _)
LegacyFrom(st, k, body) ==
    IF k > Len(body) \/ st.raised THEN st
    ELSE LegacyFrom(LegacyCard(st, k, body[k]), k + 1, body)

\* process_cards(col): GET ?updated=true, then the loop over r.json().
process_cards(rem, ns, ds) ==
    LegacyFrom(LegacyState(ns, ds, rem, <<>>, <<>>, FALSE), 1, Pending(rem))

\* ------------------------------------------------------ legacy claims
\* The creates, updates and PUTs of the run, in order.
Writes == SelectSeq(calls, LAMBDA c : c.op \in {"create", "update", "put"})
\* The cards of the CardResult of the run.
ChangedCards == [i \in 1..Len(changed_cards) |-> updated_cards[changed_cards[i]]]
\* process_cards on the server's records and the collection of the fetch.
Legacy == process_cards(at_fetch.remote, at_fetch.notes, at_fetch.decks)

====
